---- MODULE Spec2Model ----
(***************************************************************************)
(* The terminal shell of vyusso/terminal: the virtual file system          *)
(* (fileSystem.ts), the command interpreter (commands.ts) and the session  *)
(* hook useTerminal, driven by the Enter key of TerminalInput.             *)
(*                                                                         *)
(* A JavaScript string is a sequence of one-character strings, so that     *)
(* split, trim, join, startsWith and includes are computed as the code     *)
(* computes them.  The file system is the object graph of FileSystemNode:  *)
(* fs[i] is the node with identity i, fs[i].children the ordered array of  *)
(* the identities of its children; identity 1 is the root object.          *)
(***************************************************************************)
EXTENDS Integers, Sequences, FiniteSets, TLC

VARIABLES
  nickname,          \* prop of useTerminal(nickname)
  currentDirectory,  \* state.currentDirectory
  fileSystem,        \* state.fileSystem, the one mutable tree
  history,           \* state.history
  lines,             \* the display log (useState<TerminalLine[]>)
  lastInput,         \* TerminalInput's input buffer at the latest Enter press
  command,           \* argument of the latest executeCommandLine call
  result,            \* the CommandResult computed by that call
  pendingUpserts,    \* upsertActiveComment calls in flight (content each)
  activeComment,     \* the active-comments document stored for nickname
  closure,           \* the state the executeCommandLine callback captured
  input,             \* TerminalInput's input buffer, where it is edited
  tabCompletionState,\* TerminalInput's tabCompletionState
  typed,             \* the buffer as the latest edit left it
  tabPresses,        \* Tab presses since the latest edit
  lastCycle,         \* tabCompletionState as the latest edit found it
  historyIndex,      \* TerminalInput's historyIndex
  room,              \* the document chess_rooms/<code> of one room code
  calls,             \* per client, its call on the room in flight or ended
  commits,           \* expectVersion of the moves the document has taken
  boards,            \* per client, the chess window's view of the room
  users,             \* the users collection: per device, its record
  requests           \* per device, its save-nickname request

shellVars == << nickname, currentDirectory, fileSystem, history, lines,
                lastInput, command, result, pendingUpserts, activeComment,
                closure >>

editorVars == << input, tabCompletionState, typed, tabPresses, lastCycle,
                 historyIndex >>

roomVars == << room, calls, commits, boards >>

userVars == << users, requests >>

vars == << shellVars, editorVars, roomVars, userVars >>

\* JavaScript's undefined / null, distinct from every string of characters.
Undefined == << "undefined" >>

-----------------------------------------------------------------------------
(* Bounds of the exploration.                                              *)

\* Number of command lines submitted in one session.
MaxSubmits == 3

-----------------------------------------------------------------------------
(* String literals of the program.                                         *)

S_cd == <<"c", "d">>
S_ls == <<"l", "s">>
S_mkdir == <<"m", "k", "d", "i", "r">>
S_chess == <<"c", "h", "e", "s", "s">>
S_comment == <<"c", "o", "m", "m", "e", "n", "t">>
S_open == <<"o", "p", "e", "n">>
S_clear == <<"c", "l", "e", "a", "r">>
S_pwd == <<"p", "w", "d">>
S_whoami == <<"w", "h", "o", "a", "m", "i">>
S_help == <<"h", "e", "l", "p">>
S_tilde == <<"~">>
S_dash == <<"-">>
S_dotdot == <<".", ".">>
S_dot == <<".">>
S_slash == <<"/">>
S_space == <<" ">>

-----------------------------------------------------------------------------
(* String primitives of the JavaScript runtime.                            *)

\* String.prototype.startsWith
StartsWith(s, p) ==
  /\ Len(s) >= Len(p)
  /\ SubSeq(s, 1, Len(p)) = p

\* String.prototype.includes
Includes(s, p) ==
  \E i \in 1..(Len(s) - Len(p) + 1) : SubSeq(s, i, i + Len(p) - 1) = p

\* White space as String.prototype.trim sees it (the characters of the model).
IsWhiteSpace(c) == c \in {" ", "\n", "\t"}

RECURSIVE TrimStart(_)
TrimStart(s) ==
  IF s # << >> /\ IsWhiteSpace(Head(s)) THEN TrimStart(Tail(s)) ELSE s

RECURSIVE TrimEnd(_)
TrimEnd(s) ==
  IF s # << >> /\ IsWhiteSpace(s[Len(s)])
  THEN TrimEnd(SubSeq(s, 1, Len(s) - 1))
  ELSE s

\* String.prototype.trim
Trim(s) == TrimEnd(TrimStart(s))

\* String.prototype.split with a one-character separator: every piece,
\* the empty ones between two adjacent separators included.
RECURSIVE Split(_, _)
Split(s, sep) ==
  IF \A i \in 1..Len(s) : s[i] # sep
  THEN << s >>
  ELSE LET i == CHOOSE k \in 1..Len(s) :
                  s[k] = sep /\ \A j \in 1..(k - 1) : s[j] # sep
       IN  << SubSeq(s, 1, i - 1) >> \o Split(SubSeq(s, i + 1, Len(s)), sep)

\* Array.prototype.filter(Boolean) on an array of strings
FilterBoolean(parts) == SelectSeq(parts, LAMBDA p : p # << >>)

\* Array.prototype.join
RECURSIVE Join(_, _)
Join(parts, sep) ==
  IF parts = << >> THEN << >>
  ELSE IF Len(parts) = 1 THEN parts[1]
  ELSE parts[1] \o sep \o Join(Tail(parts), sep)

\* Array.prototype.slice(0, -1)
SliceButLast(parts) ==
  IF parts = << >> THEN << >> ELSE SubSeq(parts, 1, Len(parts) - 1)

\* Truthiness of a string or undefined value (if (x), !x).
Truthy(s) == s # Undefined /\ s # << >>

-----------------------------------------------------------------------------
(* fileSystem.ts                                                           *)

Directory(name, children) ==
  [ name |-> name, type |-> "directory", children |-> children,
    content |-> Undefined ]

File(name, content) ==
  [ name |-> name, type |-> "file", children |-> << >>, content |-> content ]

\* The tree built for a user: identities in construction order.
createFileSystem(nick) ==
  << Directory(S_slash, << 2, 9, 10, 11 >>),
     Directory(<<"h", "o", "m", "e">>, << 3 >>),
     Directory(nick, << 4, 5, 7, 8 >>),
     Directory(<<"a", "c", "t", "i", "v", "e">>, << >>),
     Directory(<<"D", "o", "c", "u", "m", "e", "n", "t", "s">>, << 6 >>),
     File(<<"r", "e", "a", "d", "m", "e", ".", "t", "x", "t">>, <<"W", "e", "l", "c", "o", "m", "e", " ", "t", "o", " ", "t", "h", "e", " ", "t", "e", "r", "m", "i", "n", "a", "l", "!">>),
     Directory(<<"D", "o", "w", "n", "l", "o", "a", "d", "s">>, << >>),
     Directory(<<"D", "e", "s", "k", "t", "o", "p">>, << >>),
     Directory(<<"b", "i", "n">>, << >>),
     Directory(<<"e", "t", "c">>, << >>),
     Directory(<<"t", "m", "p">>, << >>) >>

\* Identity of the root object of a tree.
Root == 1

\* null, as a node identity.
Null == 0

\* `/home/${nickname}`
HomePath(nick) == <<"/", "h", "o", "m", "e", "/">> \o nick

\* Faulty variant: the leading separator is forgotten.
getParentPath_NoLeadingSlash(path) ==
  IF path = S_slash THEN S_slash
  ELSE LET parts == FilterBoolean(Split(path, "/"))
       IN  IF Len(parts) = 0 THEN S_slash
           ELSE Join(SliceButLast(parts), S_slash)

getParentPath(path) ==
  IF path = S_slash THEN S_slash
  ELSE LET parts == FilterBoolean(Split(path, "/"))
       IN  IF Len(parts) = 0 THEN S_slash
           ELSE S_slash \o Join(SliceButLast(parts), S_slash)

isValidPath(path) ==
  IF ~ StartsWith(path, S_slash) THEN FALSE
  ELSE IF Includes(path, <<"/", "/">>) \/ Includes(path, <<"\\">>) THEN FALSE
  ELSE LET parts == FilterBoolean(Split(path, "/"))
       IN  \A i \in 1..Len(parts) :
             /\ parts[i] # S_dot
             /\ parts[i] # S_dotdot
             /\ Len(parts[i]) # 0

\* Array.prototype.find on a children array: the first child with the name.
FindChild(fs, node, name) ==
  LET kids == fs[node].children
      hits == { i \in 1..Len(kids) : fs[kids[i]].name = name }
  IN  IF hits = { } THEN Null
      ELSE kids[CHOOSE i \in hits : \A j \in hits : i <= j]

RECURSIVE Walk(_, _, _)
Walk(fs, currentNode, parts) ==
  IF parts = << >> THEN currentNode
  ELSE IF fs[currentNode].type # "directory" THEN Null
  ELSE LET child == FindChild(fs, currentNode, Head(parts))
       IN  IF child = Null THEN Null ELSE Walk(fs, child, Tail(parts))

getNodeAtPath(fs, path) ==
  IF path = S_slash THEN Root
  ELSE Walk(fs, Root, FilterBoolean(Split(path, "/")))

\* children.push(node) on the directory with identity parent.
PushChild(fs, parent, node) ==
  Append([fs EXCEPT ![parent].children = Append(@, Len(fs) + 1)], node)

\* createFile: [ok, fs], fs being the tree after the call.
createFile(fs, path, fileName, content) ==
  LET parentNode == getNodeAtPath(fs, path)
  IN  IF parentNode = Null \/ fs[parentNode].type # "directory"
      THEN [ ok |-> FALSE, fs |-> fs ]
      ELSE IF FindChild(fs, parentNode, fileName) # Null
      THEN [ ok |-> FALSE, fs |-> fs ]
      ELSE [ ok |-> TRUE,
             fs |-> PushChild(fs, parentNode, File(fileName, content)) ]

\* updateFile: [ok, fs]
updateFile(fs, path, fileName, content) ==
  LET parentNode == getNodeAtPath(fs, path)
  IN  IF parentNode = Null \/ fs[parentNode].type # "directory"
      THEN [ ok |-> FALSE, fs |-> fs ]
      ELSE LET existingFile == FindChild(fs, parentNode, fileName)
           IN  IF existingFile = Null \/ fs[existingFile].type # "file"
               THEN [ ok |-> FALSE, fs |-> fs ]
               ELSE [ ok |-> TRUE,
                      fs |-> [fs EXCEPT ![existingFile].content = content] ]

\* getFileContent: the content, or Undefined for null.
getFileContent(fs, filePath) ==
  LET fileNode == getNodeAtPath(fs, filePath)
  IN  IF fileNode = Null \/ fs[fileNode].type # "file" THEN Undefined
      ELSE IF Truthy(fs[fileNode].content) THEN fs[fileNode].content
      ELSE << >>

-----------------------------------------------------------------------------
(* String.prototype.localeCompare, as the root collation orders the        *)
(* characters of the model: punctuation before digits before letters,      *)
(* letters compared without case first, and on a tie lower case first.     *)

LowerLetters == <<"a", "b", "c", "d", "e", "f", "g", "h", "i", "j", "k", "l", "m", "n", "o", "p", "q", "r", "s", "t", "u", "v", "w", "x", "y", "z">>

UpperLetters == <<"A", "B", "C", "D", "E", "F", "G", "H", "I", "J", "K", "L", "M", "N", "O", "P", "Q", "R", "S", "T", "U", "V", "W", "X", "Y", "Z">>

CollationOrder == <<" ", "_", "-", ".", "'", "/", "\\", "~", "0", "1", "2", "3", "4", "5", "6", "7", "8", "9">> \o LowerLetters

IndexIn(c, seq) == CHOOSE i \in 1..Len(seq) : seq[i] = c

IsUpper(c) == \E i \in 1..Len(UpperLetters) : UpperLetters[i] = c

ToLower(c) == IF IsUpper(c) THEN LowerLetters[IndexIn(c, UpperLetters)] ELSE c

PrimaryWeight(c) == IndexIn(ToLower(c), CollationOrder)

\* -1, 0 or 1: the first difference of primary weights, a proper prefix first.
RECURSIVE ComparePrimary(_, _)
ComparePrimary(a, b) ==
  IF a = << >> /\ b = << >> THEN 0
  ELSE IF a = << >> THEN -1
  ELSE IF b = << >> THEN 1
  ELSE IF PrimaryWeight(Head(a)) < PrimaryWeight(Head(b)) THEN -1
  ELSE IF PrimaryWeight(Head(a)) > PrimaryWeight(Head(b)) THEN 1
  ELSE ComparePrimary(Tail(a), Tail(b))

\* Strings equal but for case: the first difference decides, lower case first.
RECURSIVE CompareCase(_, _)
CompareCase(a, b) ==
  IF a = << >> \/ b = << >> THEN 0
  ELSE IF Head(a) = Head(b) THEN CompareCase(Tail(a), Tail(b))
  ELSE IF IsUpper(Head(b)) THEN -1
  ELSE 1

localeCompare(a, b) ==
  IF ComparePrimary(a, b) # 0 THEN ComparePrimary(a, b) ELSE CompareCase(a, b)

-----------------------------------------------------------------------------
(* commands.ts                                                             *)

Success(output) == [ output |-> output, error |-> Undefined ]

Failure(error) == [ output |-> << >>, error |-> error ]

\* What a handler hands back: its CommandResult, the tree as the call left
\* it, and the content handed to upsertActiveComment (Undefined: no call).
Outcome(res, fs, upsert) == [ result |-> res, fs |-> fs, upsert |-> upsert ]

\* const [cmd, ...args] = command.trim().split(" ")
ParseCmd(commandLine) == Head(Split(Trim(commandLine), " "))

ParseArgs(commandLine) == Tail(Split(Trim(commandLine), " "))

\* args[0], undefined when there is none
FirstArg(args) == IF args = << >> THEN Undefined ELSE args[1]

\* currentDirectory === "/" ? `/${name}` : `${currentDirectory}/${name}`
JoinPath(cwd, name) ==
  IF cwd = S_slash THEN S_slash \o name ELSE cwd \o S_slash \o name

\* Faulty variant: the target's type is not tested.
executeCd_AnyNode(args, cwd, fs) ==
  LET targetPath == FirstArg(args)
  IN  IF ~ Truthy(targetPath) \/ targetPath = S_tilde THEN Success(<< >>)
      ELSE IF targetPath = S_dash THEN Success(<< >>)
      ELSE
        LET newPath == IF targetPath = S_dotdot THEN getParentPath(cwd)
                       ELSE IF ~ StartsWith(targetPath, S_slash)
                            THEN JoinPath(cwd, targetPath)
                       ELSE targetPath
        IN  IF ~ isValidPath(newPath) \/ getNodeAtPath(fs, newPath) = Null
            THEN Failure(<<"c", "d", ":", " ">> \o targetPath
                         \o <<":", " ", "N", "o", " ", "s", "u", "c", "h", " ", "f", "i", "l", "e", " ", "o", "r", " ", "d", "i", "r", "e", "c", "t", "o", "r", "y">>)
            ELSE Success(<< >>)

executeCd(args, cwd, fs) ==
  LET targetPath == FirstArg(args)
  IN  IF ~ Truthy(targetPath) \/ targetPath = S_tilde THEN Success(<< >>)
      ELSE IF targetPath = S_dash THEN Success(<< >>)
      ELSE
        LET newPath == IF targetPath = S_dotdot THEN getParentPath(cwd)
                       ELSE IF ~ StartsWith(targetPath, S_slash)
                            THEN JoinPath(cwd, targetPath)
                       ELSE targetPath
            notFound == Failure(<<"c", "d", ":", " ">> \o targetPath
                                \o <<":", " ", "N", "o", " ", "s", "u", "c", "h", " ", "f", "i", "l", "e", " ", "o", "r", " ", "d", "i", "r", "e", "c", "t", "o", "r", "y">>)
        IN  IF ~ isValidPath(newPath) THEN notFound
            ELSE LET targetNode == getNodeAtPath(fs, newPath)
                 IN  IF targetNode = Null \/ fs[targetNode].type # "directory"
                     THEN notFound
                     ELSE Success(<< >>)

\* Faulty variant: the kinds are not compared, only the names.
CompareChildren_NamesOnly(fs, a, b) == localeCompare(fs[a].name, fs[b].name)

\* The comparator handed to children.sort: negative, zero or positive.
CompareChildren(fs, a, b) ==
  IF fs[a].type # fs[b].type
  THEN IF fs[a].type = "directory" THEN -1 ELSE 1
  ELSE localeCompare(fs[a].name, fs[b].name)

\* Array.prototype.sort is stable: x goes before the first element that
\* the comparator puts strictly after it.
RECURSIVE InsertSorted(_, _, _)
InsertSorted(fs, sorted, x) ==
  IF sorted = << >> THEN << x >>
  ELSE IF CompareChildren(fs, x, Head(sorted)) < 0 THEN << x >> \o sorted
  ELSE << Head(sorted) >> \o InsertSorted(fs, Tail(sorted), x)

RECURSIVE SortChildren(_, _)
SortChildren(fs, children) ==
  IF children = << >> THEN << >>
  ELSE InsertSorted(fs, SortChildren(fs, SliceButLast(children)),
                    children[Len(children)])

\* [result, fs]: children.sort works in place on the listed directory.
executeLs(args, cwd, fs) ==
  LET targetPath == IF Len(args) > 0 /\ ~ StartsWith(args[1], S_dash)
                    THEN args[1] ELSE cwd
      notFound == Failure(<<"l", "s", ":", " ">> \o targetPath
                          \o <<":", " ", "N", "o", " ", "s", "u", "c", "h", " ", "f", "i", "l", "e", " ", "o", "r", " ", "d", "i", "r", "e", "c", "t", "o", "r", "y">>)
  IN  IF ~ isValidPath(targetPath) THEN Outcome(notFound, fs, Undefined)
      ELSE
        LET targetNode == getNodeAtPath(fs, targetPath)
        IN  IF targetNode = Null THEN Outcome(notFound, fs, Undefined)
            ELSE IF fs[targetNode].type # "directory"
            THEN Outcome(Failure(<<"l", "s", ":", " ">> \o targetPath \o <<":", " ", "N", "o", "t", " ", "a", " ", "d", "i", "r", "e", "c", "t", "o", "r", "y">>),
                         fs, Undefined)
            ELSE
              LET children == fs[targetNode].children
                  sortedChildren == SortChildren(fs, children)
              IN  IF Len(children) = 0 THEN Outcome(Success(<< >>), fs, Undefined)
                  ELSE Outcome(
                         Success([i \in 1..Len(sortedChildren) |->
                                    fs[sortedChildren[i]].name]),
                         [fs EXCEPT ![targetNode].children = sortedChildren],
                         Undefined)

\* Faulty variant: no test for an existing child of the name.
executeMkdir_NoConflictTest(args, cwd, fs) ==
  IF Len(args) = 0 THEN Failure(<<"m", "k", "d", "i", "r", ":", " ", "m", "i", "s", "s", "i", "n", "g", " ", "o", "p", "e", "r", "a", "n", "d">>)
  ELSE IF ~ Truthy(args[1]) \/ Includes(args[1], S_slash)
  THEN Failure(<<"m", "k", "d", "i", "r", ":", " ", "c", "a", "n", "n", "o", "t", " ", "c", "r", "e", "a", "t", "e", " ", "d", "i", "r", "e", "c", "t", "o", "r", "y", " ", "'">> \o args[1]
               \o <<"'", ":", " ", "I", "n", "v", "a", "l", "i", "d", " ", "a", "r", "g", "u", "m", "e", "n", "t">>)
  ELSE Success(<< >>)

executeMkdir(args, cwd, fs) ==
  IF Len(args) = 0 THEN Failure(<<"m", "k", "d", "i", "r", ":", " ", "m", "i", "s", "s", "i", "n", "g", " ", "o", "p", "e", "r", "a", "n", "d">>)
  ELSE
    LET dirName == args[1]
        cannot(why) == Failure(<<"m", "k", "d", "i", "r", ":", " ", "c", "a", "n", "n", "o", "t", " ", "c", "r", "e", "a", "t", "e", " ", "d", "i", "r", "e", "c", "t", "o", "r", "y", " ", "'">> \o dirName
                               \o why)
    IN  IF ~ Truthy(dirName) \/ Includes(dirName, S_slash)
        THEN cannot(<<"'", ":", " ", "I", "n", "v", "a", "l", "i", "d", " ", "a", "r", "g", "u", "m", "e", "n", "t">>)
        ELSE
          LET currentDir == getNodeAtPath(fs, cwd)
          IN  IF currentDir = Null \/ fs[currentDir].type # "directory"
              THEN cannot(<<"'", ":", " ", "N", "o", " ", "s", "u", "c", "h", " ", "f", "i", "l", "e", " ", "o", "r", " ", "d", "i", "r", "e", "c", "t", "o", "r", "y">>)
              ELSE IF FindChild(fs, currentDir, dirName) # Null
              THEN cannot(<<"'", ":", " ", "F", "i", "l", "e", " ", "e", "x", "i", "s", "t", "s">>)
              ELSE Success(<< >>)

\* `${nickname}.txt`
CommentFileName(nick) == nick \o <<".", "t", "x", "t">>

\* [result, fs, upsert]: createFile and updateFile work on the session's tree.
executeComment(args, cwd, fs, nick) ==
  IF Len(args) = 0
  THEN Outcome(Failure(<<"c", "o", "m", "m", "e", "n", "t", ":", " ", "m", "i", "s", "s", "i", "n", "g", " ", "c", "o", "n", "t", "e", "n", "t">>), fs, Undefined)
  ELSE
    LET content == Join(args, S_space)
        fileName == CommentFileName(nick)
        created == createFile(fs, cwd, fileName, content)
        updated == updateFile(created.fs, cwd, fileName, content)
    IN  IF created.ok
        THEN Outcome(Success(<< <<"f", "i", "l", "e", " ", "c", "r", "e", "a", "t", "e", "d", " ", "(", "s", "h", "a", "r", "e", "d", ")">> >>), created.fs, content)
        ELSE IF updated.ok
        THEN Outcome(Success(<< <<"f", "i", "l", "e", " ", "u", "p", "d", "a", "t", "e", "d", " ", "(", "s", "h", "a", "r", "e", "d", ")">> >>), updated.fs, content)
        ELSE Outcome(Failure(<<"c", "o", "m", "m", "e", "n", "t", ":", " ", "c", "a", "n", "n", "o", "t", " ", "u", "p", "d", "a", "t", "e", " ", "f", "i", "l", "e", " ", "'">> \o fileName
                             \o <<"'", ":", " ", "F", "i", "l", "e", " ", "n", "o", "t", " ", "f", "o", "u", "n", "d">>),
                     updated.fs, content)

\* Faulty variant: the name is joined to the current directory even when
\* it is absolute.
executeOpen_AlwaysRelative(args, cwd, fs) ==
  IF Len(args) = 0 THEN Failure(<<"o", "p", "e", "n", ":", " ", "m", "i", "s", "s", "i", "n", "g", " ", "f", "i", "l", "e", "n", "a", "m", "e">>)
  ELSE IF getFileContent(fs, JoinPath(cwd, args[1])) = Undefined
  THEN Failure(<<"o", "p", "e", "n", ":", " ">> \o args[1] \o <<":", " ", "N", "o", " ", "s", "u", "c", "h", " ", "f", "i", "l", "e">>)
  ELSE Success(<< getFileContent(fs, JoinPath(cwd, args[1])) >>)

executeOpen(args, cwd, fs) ==
  IF Len(args) = 0 THEN Failure(<<"o", "p", "e", "n", ":", " ", "m", "i", "s", "s", "i", "n", "g", " ", "f", "i", "l", "e", "n", "a", "m", "e">>)
  ELSE
    LET fileName == args[1]
        filePath == IF ~ StartsWith(fileName, S_slash)
                    THEN JoinPath(cwd, fileName) ELSE fileName
        content == getFileContent(fs, filePath)
    IN  IF content = Undefined
        THEN Failure(<<"o", "p", "e", "n", ":", " ">> \o fileName \o <<":", " ", "N", "o", " ", "s", "u", "c", "h", " ", "f", "i", "l", "e">>)
        ELSE Success(<< content >>)

executeHelp ==
  Success(<<
    <<"A", "v", "a", "i", "l", "a", "b", "l", "e", " ", "c", "o", "m", "m", "a", "n", "d", "s", ":">>,
    << >>,
    <<" ", " ", "c", "d", " ", "[", "d", "i", "r", "e", "c", "t", "o", "r", "y", "]", " ", " ", " ", " ", " ", "C", "h", "a", "n", "g", "e", " ", "d", "i", "r", "e", "c", "t", "o", "r", "y">>,
    <<" ", " ", "c", "d", " ", ".", ".", " ", " ", " ", " ", " ", " ", " ", " ", " ", " ", " ", " ", " ", " ", "G", "o", " ", "t", "o", " ", "p", "a", "r", "e", "n", "t", " ", "d", "i", "r", "e", "c", "t", "o", "r", "y">>,
    <<" ", " ", "l", "s", " ", " ", " ", " ", " ", " ", " ", " ", " ", " ", " ", " ", " ", " ", " ", " ", " ", "L", "i", "s", "t", " ", "d", "i", "r", "e", "c", "t", "o", "r", "y", " ", "c", "o", "n", "t", "e", "n", "t", "s">>,
    <<" ", " ", "m", "k", "d", "i", "r", " ", "[", "d", "i", "r", "e", "c", "t", "o", "r", "y", "]", " ", " ", "C", "r", "e", "a", "t", "e", " ", "a", " ", "n", "e", "w", " ", "d", "i", "r", "e", "c", "t", "o", "r", "y">>,
    <<" ", " ", "c", "h", "e", "s", "s", " ", " ", " ", " ", " ", " ", " ", " ", " ", " ", " ", " ", " ", " ", "L", "a", "u", "n", "c", "h", " ", "c", "h", "e", "s", "s", " ", "w", "i", "n", "d", "o", "w">>,
    <<" ", " ", "c", "o", "m", "m", "e", "n", "t", " ", "[", "t", "e", "x", "t", "]", " ", " ", " ", " ", " ", "C", "r", "e", "a", "t", "e", " ", "a", " ", "t", "e", "x", "t", " ", "f", "i", "l", "e", " ", "w", "i", "t", "h", " ", "c", "o", "n", "t", "e", "n", "t">>,
    <<" ", " ", "o", "p", "e", "n", " ", "[", "f", "i", "l", "e", "n", "a", "m", "e", "]", " ", " ", " ", " ", "R", "e", "a", "d", " ", "a", "n", "d", " ", "d", "i", "s", "p", "l", "a", "y", " ", "f", "i", "l", "e", " ", "c", "o", "n", "t", "e", "n", "t", "s">>,
    <<" ", " ", "p", "w", "d", " ", " ", " ", " ", " ", " ", " ", " ", " ", " ", " ", " ", " ", " ", " ", " ", "P", "r", "i", "n", "t", " ", "w", "o", "r", "k", "i", "n", "g", " ", "d", "i", "r", "e", "c", "t", "o", "r", "y">>,
    <<" ", " ", "w", "h", "o", "a", "m", "i", " ", " ", " ", " ", " ", " ", " ", " ", " ", " ", " ", " ", " ", "S", "h", "o", "w", " ", "c", "u", "r", "r", "e", "n", "t", " ", "u", "s", "e", "r">>,
    <<" ", " ", "c", "l", "e", "a", "r", " ", " ", " ", " ", " ", " ", " ", " ", " ", " ", " ", " ", " ", " ", "C", "l", "e", "a", "r", " ", "t", "e", "r", "m", "i", "n", "a", "l", " ", "s", "c", "r", "e", "e", "n">>,
    <<" ", " ", "h", "e", "l", "p", " ", " ", " ", " ", " ", " ", " ", " ", " ", " ", " ", " ", " ", " ", " ", "S", "h", "o", "w", " ", "t", "h", "i", "s", " ", "h", "e", "l", "p", " ", "m", "e", "s", "s", "a", "g", "e">>
  >>)

\* Faulty variant: a name the switch does not know is passed over in
\* silence.
CommandNotFound_Silent(cmd) == Success(<< >>)

\* The default case of the switch: the error for a name it does not know.
CommandNotFound(cmd) ==
  IF Truthy(cmd)
  THEN Failure(<<"c", "o", "m", "m", "a", "n", "d", " ", "n", "o", "t", " ", "f", "o", "u", "n", "d", ":", " ">> \o cmd
                 \o <<"\n", "t", "y", "p", "e", " ", "\"", "h", "e", "l", "p", "\"", " ", "f", "o", "r", " ", "a", " ", "l", "i", "s", "t", " ", "o", "f", " ", "c", "o", "m", "m", "a", "n", "d", "s">>)
  ELSE Success(<< >>)

\* executeCommand(command, state, nickname): [result, fs, upsert]
executeCommand(commandLine, cwd, fs, nick) ==
  LET cmd == ParseCmd(commandLine)
      args == ParseArgs(commandLine)
  IN  CASE cmd = S_cd -> Outcome(executeCd(args, cwd, fs), fs, Undefined)
        [] cmd = S_ls -> executeLs(args, cwd, fs)
        [] cmd = S_mkdir -> Outcome(executeMkdir(args, cwd, fs), fs, Undefined)
        [] cmd = S_chess ->
             Outcome(Success(<< <<"c", "h", "e", "s", "s", ".", "e", "x", "e", " ", "r", "u", "n", "n", "i", "n", "g">> >>), fs, Undefined)
        [] cmd = S_comment -> executeComment(args, cwd, fs, nick)
        [] cmd = S_open -> Outcome(executeOpen(args, cwd, fs), fs, Undefined)
        [] cmd = S_clear -> Outcome(Success(<< >>), fs, Undefined)
        [] cmd = S_pwd -> Outcome(Success(<< cwd >>), fs, Undefined)
        [] cmd = S_whoami -> Outcome(Success(<< nick >>), fs, Undefined)
        [] cmd = S_help -> Outcome(executeHelp, fs, Undefined)
        [] OTHER -> Outcome(CommandNotFound(cmd), fs, Undefined)

-----------------------------------------------------------------------------
(* useTerminal: the session hook.  A TerminalLine's timestamp (Date.now())  *)
(* is read by nothing and is left out.                                     *)

CommandLine(content, directory) ==
  [ type |-> "command", content |-> content, command |-> content,
    directory |-> directory ]

OutputLine(content) ==
  [ type |-> "output", content |-> content, command |-> Undefined,
    directory |-> Undefined ]

ErrorLine(content) ==
  [ type |-> "error", content |-> content, command |-> Undefined,
    directory |-> Undefined ]

\* Faulty variant: a relative target is committed as typed, unresolved.
CdNewPath_Unresolved(args, cwd, nick) ==
  LET targetPath == FirstArg(args)
  IN  IF ~ Truthy(targetPath) \/ targetPath = S_tilde THEN HomePath(nick)
      ELSE IF targetPath = S_dotdot THEN getParentPath(cwd)
      ELSE IF targetPath = S_dash THEN HomePath(nick)
      ELSE targetPath

\* Faulty variant: cd - leaves the directory as it is.
CdNewPath_DashStays(args, cwd, nick) ==
  LET targetPath == FirstArg(args)
  IN  IF ~ Truthy(targetPath) \/ targetPath = S_tilde THEN HomePath(nick)
      ELSE IF targetPath = S_dotdot THEN getParentPath(cwd)
      ELSE IF targetPath = S_dash THEN cwd
      ELSE IF ~ StartsWith(targetPath, S_slash) THEN JoinPath(cwd, targetPath)
      ELSE targetPath

\* The cd branch: the path committed as currentDirectory.
CdNewPath(args, cwd, nick) ==
  LET targetPath == FirstArg(args)
  IN  IF ~ Truthy(targetPath) \/ targetPath = S_tilde THEN HomePath(nick)
      ELSE IF targetPath = S_dotdot THEN getParentPath(cwd)
      ELSE IF targetPath = S_dash THEN HomePath(nick)
      ELSE IF ~ StartsWith(targetPath, S_slash) THEN JoinPath(cwd, targetPath)
      ELSE targetPath

\* Faulty variant: the new directory replaces the children there were.
MkdirUpdate_Replacing(fs, cwd, dirName) ==
  LET currentDir == getNodeAtPath(fs, cwd)
  IN  IF currentDir # Null /\ fs[currentDir].type = "directory"
      THEN Append([fs EXCEPT ![currentDir].children = << Len(fs) + 1 >>],
                  Directory(dirName, << >>))
      ELSE fs

\* The mkdir branch: the state updater that pushes the new directory.
MkdirUpdate(fs, cwd, dirName) ==
  LET currentDir == getNodeAtPath(fs, cwd)
  IN  IF currentDir # Null /\ fs[currentDir].type = "directory"
      THEN IF \E i \in 1..Len(fs[currentDir].children) :
                LET child == fs[fs[currentDir].children[i]]
                IN  child.name = dirName /\ child.type = "directory"
           THEN fs
           ELSE PushChild(fs, currentDir, Directory(dirName, << >>))
      ELSE fs

\* Faulty variant: the output lines are appended last first.
ResultLines_Reversed(res) ==
  IF Truthy(res.error) THEN << ErrorLine(res.error) >>
  ELSE [i \in 1..Len(res.output) |->
          OutputLine(res.output[Len(res.output) + 1 - i])]

\* The lines appended for a result: one error line, or the output lines.
ResultLines(res) ==
  IF Truthy(res.error) THEN << ErrorLine(res.error) >>
  ELSE [i \in 1..Len(res.output) |-> OutputLine(res.output[i])]

\* The cd branch: currentDirectory after the line.
CommitDirectory(cmd, args, res, cwd, nick) ==
  IF cmd = S_cd /\ ~ Truthy(res.error)
  THEN CdNewPath(args, cwd, nick)
  ELSE cwd

\* Faulty variant: the push is not conditioned on the result (as in the
\* hook before the "only if command executed successfully" test).
CommitFileSystem_IgnoringError(cmd, args, res, fs, cwd) ==
  IF cmd = S_mkdir /\ Truthy(FirstArg(args))
  THEN MkdirUpdate(fs, cwd, FirstArg(args))
  ELSE fs

\* The mkdir branch: the tree after the line, fs being the tree as
\* executeCommand left it.
CommitFileSystem(cmd, args, res, fs, cwd) ==
  IF cmd = S_mkdir /\ ~ Truthy(res.error) /\ Truthy(FirstArg(args))
  THEN MkdirUpdate(fs, cwd, FirstArg(args))
  ELSE fs

\* Faulty variant: clear leaves its own echoed line in the log.
CommitLines_KeepingEcho(cmd, res, log, commandLine, cwd) ==
  IF cmd = S_clear THEN << CommandLine(commandLine, cwd) >>
  ELSE Append(log, CommandLine(commandLine, cwd)) \o ResultLines(res)

\* The display log after the line: clear empties it and returns early.
CommitLines(cmd, res, log, commandLine, cwd) ==
  IF cmd = S_clear THEN << >>
  ELSE Append(log, CommandLine(commandLine, cwd)) \o ResultLines(res)

\* Faulty variant: the earlier entries are not carried over.
CommitHistory_Replacing(hist, commandLine) == << commandLine >>

\* history: [...prev.history, command]
CommitHistory(hist, commandLine) == Append(hist, commandLine)

\* executeCommandLine(command): a blank line is skipped, any other line
\* is recorded, echoed, interpreted, and its effects committed.
executeCommandLine(commandLine) ==
  LET out == executeCommand(commandLine, currentDirectory, fileSystem, nickname)
      res == out.result
      cmd == ParseCmd(commandLine)
      args == ParseArgs(commandLine)
  IN  IF ~ Truthy(Trim(commandLine))
      THEN UNCHANGED << currentDirectory, fileSystem, history, lines,
                        command, result, pendingUpserts >>
      ELSE
        /\ history' = CommitHistory(history, commandLine)
        /\ command' = commandLine
        /\ result' = res
        /\ currentDirectory' =
             CommitDirectory(cmd, args, res, currentDirectory, nickname)
        /\ fileSystem' =
             CommitFileSystem(cmd, args, res, out.fs, currentDirectory)
        /\ lines' = CommitLines(cmd, res, lines, commandLine, currentDirectory)
        /\ pendingUpserts' =
             IF out.upsert = Undefined THEN pendingUpserts
             ELSE Append(pendingUpserts, out.upsert)

-----------------------------------------------------------------------------
(* What the user types before pressing Enter.                              *)

\* The nickname the sessions of Spec run under: "al".
Nicknames == { <<"a", "l">> }

\* Any string of 2 to 20 characters passes the nickname screen: "a/b".
AnyNicknames == Nicknames \cup { <<"a", "/", "b">> }

\* Names typed as arguments: "x", "al.txt", "/home/al/al.txt".
N_x == <<"x">>

N_alTxt == <<"a", "l", ".", "t", "x", "t">>

N_absAlTxt == <<"/", "h", "o", "m", "e", "/", "a", "l", "/", "a", "l", ".", "t", "x", "t">>

\* A command name, one space, one argument.
Typed(cmd, arg) == cmd \o S_space \o arg

\* The buffers Enter is pressed on: cd .. | cd x | cd al.txt | mkdir x |
\* mkdir .. | mkdir al.txt | ls | " pwd " | comment hi | comment a b |
\* open al.txt | open /home/al/al.txt | clear | foo | "  "
Inputs ==
  { Typed(S_cd, S_dotdot), Typed(S_cd, N_x), Typed(S_cd, N_alTxt),
    Typed(S_mkdir, N_x), Typed(S_mkdir, S_dotdot), Typed(S_mkdir, N_alTxt),
    S_ls,
    S_space \o S_pwd \o S_space,
    Typed(S_comment, <<"h", "i">>), Typed(S_comment, <<"a", " ", "b">>),
    Typed(S_open, N_alTxt), Typed(S_open, N_absAlTxt),
    S_clear,
    <<"f", "o", "o">>,
    S_space \o S_space }

-----------------------------------------------------------------------------
(* Chess rooms: createRoom, joinRoom, submitMove and leaveRoom on the      *)
(* document chess_rooms/<code> of one room code.  runTransaction runs its  *)
(* function on the document it reads and commits the update only if the   *)
(* document has not changed since, and runs the function again otherwise.  *)
(* Time stamps (createdAt, updatedAt) are read by nothing and left out.    *)

\* Calls one client makes.
MaxCalls == 2

\* The device ids of the clients, and the nickname each has stored.
Clients == { "c1", "c2" }

NickOf(c) == IF c = "c1" THEN "al" ELSE "bo"

\* null, as a player of a seat, a nickname or a lastMove.
NoValue == "null"

\* The document does not exist.
NoRoom ==
  [ exists |-> FALSE, fen |-> NoValue, turn |-> "w",
    players |-> [white |-> NoValue, black |-> NoValue],
    playerNicknames |-> [white |-> NoValue, black |-> NoValue],
    host |-> NoValue, status |-> "waiting", lastMove |-> NoValue,
    version |-> 0 ]

\* createRoom: the document setDoc writes.
NewRoom(hostId, youPlay) ==
  [ exists |-> TRUE, fen |-> "startFen", turn |-> "w",
    players |-> [white |-> IF youPlay = "w" THEN hostId ELSE NoValue,
                 black |-> IF youPlay = "b" THEN hostId ELSE NoValue],
    playerNicknames |->
      [white |-> IF youPlay = "w" THEN NickOf(hostId) ELSE NoValue,
       black |-> IF youPlay = "b" THEN NickOf(hostId) ELSE NoValue],
    host |-> hostId, status |-> "waiting", lastMove |-> NoValue,
    version |-> 0 ]

\* What a transaction function decides on the document it read: the error
\* it throws ("none" when it throws none) and the document as updated.
Throws(msg, data) == [ error |-> msg, update |-> data ]

Updates(data) == [ error |-> "none", update |-> data ]

\* Faulty variant: the last seat is given away without the test that it
\* is empty.
joinRoomTx_NoFullTest(data, joinerId) ==
  IF ~ data.exists THEN Throws("Room not found", data)
  ELSE IF data.status = "finished" THEN Throws("Room finished", data)
  ELSE LET seat == IF data.players.white = NoValue THEN "white" ELSE "black"
           players == [data.players EXCEPT ![seat] = joinerId]
       IN  Updates([data EXCEPT
             !.players = players,
             !.playerNicknames =
                [s \in {"white", "black"} |->
                   IF players[s] = joinerId THEN NickOf(joinerId)
                   ELSE data.playerNicknames[s]],
             !.status = IF players.white # NoValue /\ players.black # NoValue
                        THEN "active" ELSE "waiting"])

\* joinRoom: the function of its transaction.
joinRoomTx(data, joinerId) ==
  IF ~ data.exists THEN Throws("Room not found", data)
  ELSE IF data.status = "finished" THEN Throws("Room finished", data)
  ELSE IF data.players.white # NoValue /\ data.players.black # NoValue
  THEN Throws("Room full", data)
  ELSE LET seat == IF data.players.white = NoValue THEN "white" ELSE "black"
           players == [data.players EXCEPT ![seat] = joinerId]
       IN  Updates([data EXCEPT
             !.players = players,
             !.playerNicknames =
                [s \in {"white", "black"} |->
                   IF players[s] = joinerId THEN NickOf(joinerId)
                   ELSE data.playerNicknames[s]],
             !.status = IF players.white # NoValue /\ players.black # NoValue
                        THEN "active" ELSE "waiting"])

\* Faulty variant: the version read is not compared with expectVersion.
submitMoveTx_NoVersionTest(data, move, expectVersion, nextFen, nextTurn) ==
  IF ~ data.exists THEN Throws("Room not found", data)
  ELSE Updates([data EXCEPT !.fen = nextFen, !.turn = nextTurn,
                            !.lastMove = move, !.version = @ + 1])

\* submitMove: the function of its transaction.
submitMoveTx(data, move, expectVersion, nextFen, nextTurn) ==
  IF ~ data.exists THEN Throws("Room not found", data)
  ELSE IF data.version # expectVersion THEN Throws("Stale state", data)
  ELSE Updates([data EXCEPT !.fen = nextFen, !.turn = nextTurn,
                            !.lastMove = move, !.version = @ + 1])

\* The function of the transaction of call k, on the document data.
TxOf(k, c, data) ==
  IF k.op = "joinRoom" THEN joinRoomTx(data, c)
  ELSE submitMoveTx(data, k.move, k.expectVersion, k.nextFen, k.nextTurn)

\* A client that has made no call yet.
NoCall ==
  [ op |-> "none", pc |-> "done", outcome |-> "none", made |-> 0,
    youPlay |-> "w", move |-> NoValue, expectVersion |-> 0,
    nextFen |-> NoValue, nextTurn |-> "w", snap |-> NoRoom ]

\* The chess window before a room is entered: gameRef holds new Chess(),
\* roomCode and mySide are null, roomVersion is 0 and no listener is set;
\* seen, the snapshot the listener ran on last, is a value no document
\* equals.
NoBoard ==
  [ listening |-> FALSE, roomCode |-> FALSE, mySide |-> NoValue,
    fen |-> "startFen", roomVersion |-> 0, roomStatus |-> "none",
    seen |-> [NoRoom EXCEPT !.version = -1] ]

InitRooms ==
  /\ room = NoRoom
  /\ calls = [c \in Clients |-> NoCall]
  /\ commits = << >>
  /\ boards = [c \in Clients |-> NoBoard]

\* The calls a client may make: the moves are the ones its board allows,
\* on the version of the room its latest snapshot showed.
CallsToMake ==
  { [NoCall EXCEPT !.op = "createRoom", !.youPlay = side] :
      side \in {"w", "b"} }
  \cup { [NoCall EXCEPT !.op = "joinRoom"], [NoCall EXCEPT !.op = "leaveRoom"] }
  \cup { [NoCall EXCEPT !.op = "submitMove", !.move = mv, !.nextFen = mv,
                        !.expectVersion = v,
                        !.nextTurn = IF v % 2 = 0 THEN "b" ELSE "w"] :
           mv \in {"e2e4", "d2d4"}, v \in 0..room.version }

\* A client calls createRoom, joinRoom, submitMove or leaveRoom.
Call(c) ==
  /\ calls[c].pc = "done"
  /\ calls[c].made < MaxCalls
  /\ \E k \in CallsToMake :
       calls' = [calls EXCEPT ![c] =
                   [k EXCEPT !.pc = "get", !.made = calls[c].made + 1]]
  /\ UNCHANGED << room, commits, boards, shellVars, editorVars, userVars >>

\* The call of client c ends with the outcome.
Ended(c, outcome) ==
  calls' = [calls EXCEPT ![c].pc = "done", ![c].outcome = outcome]

\* createRoom: getDoc, and the throw when the document exists.
CreateRoomGet(c) ==
  /\ calls[c].op = "createRoom" /\ calls[c].pc = "get"
  /\ IF room.exists THEN Ended(c, "Room code already exists")
     ELSE calls' = [calls EXCEPT ![c].pc = "set"]
  /\ UNCHANGED << room, commits, boards, shellVars, editorVars, userVars >>

\* createRoom: setDoc writes the whole document.
CreateRoomSet(c) ==
  /\ calls[c].op = "createRoom" /\ calls[c].pc = "set"
  /\ room' = NewRoom(c, calls[c].youPlay)
  /\ commits' = << >>
  /\ Ended(c, "ok")
  /\ UNCHANGED << boards, shellVars, editorVars, userVars >>

\* joinRoom, submitMove: the transaction reads the document and runs its
\* function, which throws or prepares the update.
TxGet(c) ==
  /\ calls[c].op \in {"joinRoom", "submitMove"} /\ calls[c].pc = "get"
  /\ IF TxOf(calls[c], c, room).error # "none"
     THEN Ended(c, TxOf(calls[c], c, room).error)
     ELSE calls' = [calls EXCEPT ![c].pc = "commit", ![c].snap = room]
  /\ UNCHANGED << room, commits, boards, shellVars, editorVars, userVars >>

\* joinRoom, submitMove: the transaction commits if the document is as
\* read, and starts again if it is not.
TxCommit(c) ==
  /\ calls[c].op \in {"joinRoom", "submitMove"} /\ calls[c].pc = "commit"
  /\ IF room = calls[c].snap
     THEN /\ room' = TxOf(calls[c], c, calls[c].snap).update
          /\ commits' = IF calls[c].op = "submitMove"
                        THEN Append(commits, calls[c].expectVersion)
                        ELSE commits
          /\ calls' = [calls EXCEPT ![c].pc = "done", ![c].outcome = "ok",
                                    ![c].snap = NoRoom]
     ELSE /\ calls' = [calls EXCEPT ![c].pc = "get", ![c].snap = NoRoom]
          /\ UNCHANGED << room, commits >>
  /\ UNCHANGED << boards, shellVars, editorVars, userVars >>

\* leaveRoom: deleteDoc.
LeaveRoom(c) ==
  /\ calls[c].op = "leaveRoom" /\ calls[c].pc = "get"
  /\ room' = NoRoom
  /\ commits' = << >>
  /\ Ended(c, "ok")
  /\ UNCHANGED << boards, shellVars, editorVars, userVars >>

NextRooms ==
  \E c \in Clients :
    \/ Call(c)
    \/ CreateRoomGet(c)
    \/ CreateRoomSet(c)
    \/ TxGet(c)
    \/ TxCommit(c)
    \/ LeaveRoom(c)

-----------------------------------------------------------------------------
(* The chess window of a client in room mode: the room dialog creates or   *)
(* joins the room and subscribes, the listener's callback takes every      *)
(* snapshot as the position, and a move on the board is played on gameRef  *)
(* and submitted on the version the window holds.  A position stands for   *)
(* the fen chess.js gives it; a listener is handed the document as it is   *)
(* when it runs.  One call of a client is followed at a time.              *)

\* game.turn() of a position.
FenTurn(fen) ==
  IF fen \in { "startFen", "e2e4 e7e5", "d2d4 d7d5" } THEN "w" ELSE "b"

\* game.move, game.fen(): the positions one legal move away.
NextFens(fen) ==
  CASE fen = "startFen" -> { "e2e4", "d2d4" }
    [] fen = "e2e4" -> { "e2e4 e7e5" }
    [] fen = "d2d4" -> { "d2d4 d7d5" }
    [] fen = "e2e4 e7e5" -> { "e2e4 e7e5 g1f3" }
    [] OTHER -> { }

\* handleCreate, handleJoin: the dialog calls createRoom or joinRoom.
RoomModalCall(c) ==
  /\ ~ boards[c].listening
  /\ calls[c].pc = "done" /\ calls[c].outcome # "ok"
  /\ calls[c].made < MaxCalls
  /\ \E k \in { [NoCall EXCEPT !.op = "createRoom", !.youPlay = "w"],
                [NoCall EXCEPT !.op = "joinRoom"] } :
       calls' = [calls EXCEPT ![c] =
                   [k EXCEPT !.pc = "get", !.made = calls[c].made + 1]]
  /\ UNCHANGED << room, commits, boards, shellVars, editorVars, userVars >>

\* onSubscribed, once the call of the dialog has returned: roomCode is set
\* and the listener is installed.
OnSubscribed(c) ==
  /\ ~ boards[c].listening
  /\ calls[c].op \in { "createRoom", "joinRoom" }
  /\ calls[c].pc = "done" /\ calls[c].outcome = "ok"
  /\ boards' = [boards EXCEPT ![c].listening = TRUE, ![c].roomCode = TRUE]
  /\ UNCHANGED << room, calls, commits, shellVars, editorVars, userVars >>

\* Faulty variant: the snapshot does not replace the position of a window
\* that has played on it.
OnRoomSnapshot_KeepingPosition(board, data, deviceId) ==
  IF ~ data.exists
  THEN [board EXCEPT !.roomCode = FALSE, !.mySide = NoValue,
                     !.roomStatus = "finished", !.seen = data]
  ELSE [board EXCEPT
          !.mySide = IF data.players.white = deviceId THEN "w"
                     ELSE IF data.players.black = deviceId THEN "b" ELSE @,
          !.roomStatus = data.status,
          !.roomVersion = data.version,
          !.fen = IF board.fen = board.seen.fen THEN data.fen ELSE @,
          !.seen = data]

\* Faulty variant: a snapshot of no document leaves the window in the room.
OnRoomSnapshot_StayingInRoom(board, data, deviceId) ==
  IF ~ data.exists
  THEN [board EXCEPT !.seen = data]
  ELSE [board EXCEPT
          !.mySide = IF data.players.white = deviceId THEN "w"
                     ELSE IF data.players.black = deviceId THEN "b" ELSE @,
          !.roomStatus = data.status,
          !.roomVersion = data.version,
          !.fen = data.fen,
          !.seen = data]

\* The callback handed to subscribeRoom, on the snapshot data.
OnRoomSnapshot(board, data, deviceId) ==
  IF ~ data.exists
  THEN [board EXCEPT !.roomCode = FALSE, !.mySide = NoValue,
                     !.roomStatus = "finished", !.seen = data]
  ELSE [board EXCEPT
          !.mySide = IF data.players.white = deviceId THEN "w"
                     ELSE IF data.players.black = deviceId THEN "b" ELSE @,
          !.roomStatus = data.status,
          !.roomVersion = data.version,
          !.fen = data.fen,
          !.seen = data]

\* onSnapshot: the listener runs on the document once it has changed.
Snapshot(c) ==
  /\ boards[c].listening
  /\ boards[c].seen # room
  /\ boards' = [boards EXCEPT ![c] = OnRoomSnapshot(boards[c], room, c)]
  /\ UNCHANGED << room, calls, commits, shellVars, editorVars, userVars >>

\* handleSquareClick on a legal target, in room mode and on the turn of
\* mySide: the move is played on gameRef and submitMove is called.
Move(c) ==
  /\ boards[c].roomCode /\ boards[c].mySide # NoValue
  /\ FenTurn(boards[c].fen) = boards[c].mySide
  /\ calls[c].pc = "done" /\ calls[c].made < MaxCalls
  /\ \E nextFen \in NextFens(boards[c].fen) :
       /\ boards' = [boards EXCEPT ![c].fen = nextFen]
       /\ calls' = [calls EXCEPT ![c] =
            [NoCall EXCEPT !.op = "submitMove", !.pc = "get",
                           !.made = calls[c].made + 1,
                           !.move = nextFen, !.nextFen = nextFen,
                           !.nextTurn = FenTurn(nextFen),
                           !.expectVersion = boards[c].roomVersion]]
  /\ UNCHANGED << room, commits, shellVars, editorVars, userVars >>

\* The close button of the window and the cleanup of its unmount: the
\* listener is removed and, with a room code at hand, leaveRoom is called;
\* a window opened again starts anew.
CloseWindow(c) ==
  /\ boards[c].roomCode
  /\ calls[c].pc = "done" /\ calls[c].made < MaxCalls
  /\ boards' = [boards EXCEPT ![c] = NoBoard]
  /\ calls' = [calls EXCEPT ![c] =
       [NoCall EXCEPT !.op = "leaveRoom", !.pc = "get",
                      !.made = calls[c].made + 1]]
  /\ UNCHANGED << room, commits, shellVars, editorVars, userVars >>

NextBoards ==
  \E c \in Clients :
    \/ RoomModalCall(c)
    \/ OnSubscribed(c)
    \/ Move(c)
    \/ Snapshot(c)
    \/ CreateRoomGet(c)
    \/ CreateRoomSet(c)
    \/ TxGet(c)
    \/ TxCommit(c)

NextLeaving ==
  \E c \in Clients : NextBoards \/ CloseWindow(c) \/ LeaveRoom(c)

-----------------------------------------------------------------------------
(* The save-nickname endpoint: POST checks the nickname with               *)
(* checkNicknameExists and stores it under the device id with              *)
(* saveUserNickname; each is one call on the users collection.             *)

\* Requests one device sends.
MaxRequests == 2

\* The device ids of the requests.
Devices == { "d1", "d2" }

\* The nicknames the requests carry: "al", "bo", and "x", too short.
PostedNicknames == { <<"a", "l">>, <<"b", "o">>, <<"x">> }

\* A device that has sent no request; status 0: not answered yet.
NoRequest == [ pc |-> "done", nickname |-> Undefined, status |-> 0, sent |-> 0 ]

InitUsers ==
  /\ users = [d \in Devices |-> Undefined]
  /\ requests = [d \in Devices |-> NoRequest]

\* The request of device d is answered with the status.
Answered(d, status) ==
  requests' = [requests EXCEPT ![d].pc = "done", ![d].status = status]

\* POST: the request arrives and its nickname is validated.
Post(d) ==
  /\ requests[d].pc = "done"
  /\ requests[d].sent < MaxRequests
  /\ \E nick \in PostedNicknames :
       requests' = [requests EXCEPT ![d] =
         [ pc |-> IF Len(nick) < 2 \/ Len(nick) > 20 THEN "done" ELSE "check",
           nickname |-> nick,
           status |-> IF Len(nick) < 2 \/ Len(nick) > 20 THEN 400 ELSE 0,
           sent |-> requests[d].sent + 1 ]]
  /\ UNCHANGED << users, shellVars, editorVars, roomVars >>

\* checkNicknameExists: the query for a record with the nickname; a query
\* that fails is caught and answers false.  409 when it answers true.
CheckNicknameExists(d) ==
  /\ requests[d].pc = "check"
  /\ \E failed \in BOOLEAN :
       IF ~ failed /\ \E e \in Devices : users[e] = requests[d].nickname
       THEN Answered(d, 409)
       ELSE requests' = [requests EXCEPT ![d].pc = "save"]
  /\ UNCHANGED << users, shellVars, editorVars, roomVars >>

\* saveUserNickname: setDoc of the record of the device; 200, or 500 when
\* the write fails.
SaveUserNickname(d) ==
  /\ requests[d].pc = "save"
  /\ \E failed \in BOOLEAN :
       IF failed
       THEN Answered(d, 500) /\ UNCHANGED users
       ELSE /\ Answered(d, 200)
            /\ users' = [users EXCEPT ![d] = requests[d].nickname]
  /\ UNCHANGED << shellVars, editorVars, roomVars >>

NextUsers ==
  \E d \in Devices : Post(d) \/ CheckNicknameExists(d) \/ SaveUserNickname(d)

-----
(* The state machine.                                                      *)

\* tabCompletionState null: a record that is not cycling, so that it
\* compares with the records setTabCompletionState stores.
NoCompletion ==
  [ matches |-> << >>, currentIndex |-> 0, originalPartial |-> << >>,
    isCycling |-> FALSE ]

\* The editor of the input line: an empty buffer, no completion going on.
InitEditor ==
  /\ input = << >>
  /\ tabCompletionState = NoCompletion
  /\ typed = << >>
  /\ tabPresses = 0
  /\ lastCycle = NoCompletion
  /\ historyIndex = -1

\* The callback of the latest render: its closure holds the current state.
Rendered ==
  [ fresh |-> TRUE, currentDirectory |-> << >>, fileSystem |-> << >> ]

InitFor(nicks) ==
  /\ nickname \in nicks
  /\ currentDirectory = HomePath(nickname)
  /\ fileSystem = createFileSystem(nickname)
  /\ history = << >>
  /\ lines = << >>
  /\ lastInput = Undefined
  /\ command = Undefined
  /\ result = Success(<< >>)
  /\ pendingUpserts = << >>
  /\ activeComment = Undefined
  /\ closure = Rendered
  /\ InitEditor
  /\ InitRooms
  /\ InitUsers

Init == InitFor(Nicknames)

InitAnyNickname == InitFor(AnyNicknames)

\* TerminalInput's Enter key with the buffer holding raw: a non-blank buffer
\* is trimmed and handed to executeCommandLine, a blank one is ignored.
EnterOn(raw) ==
  /\ lastInput' = raw
  /\ UNCHANGED << nickname, activeComment, closure >>
  /\ IF Truthy(Trim(raw))
     THEN /\ Len(history) < MaxSubmits
          /\ executeCommandLine(Trim(raw))
     ELSE UNCHANGED << currentDirectory, fileSystem, history, lines,
                       command, result, pendingUpserts >>

HandleKeyDownEnter ==
  /\ \E raw \in Inputs : EnterOn(raw)
  /\ UNCHANGED << editorVars, roomVars, userVars >>

\* The oldest upsertActiveComment in flight completes: setDoc merges the
\* content into the document of the nickname.
UpsertResolves ==
  /\ pendingUpserts # << >>
  /\ activeComment' = Head(pendingUpserts)
  /\ pendingUpserts' = Tail(pendingUpserts)
  /\ UNCHANGED << nickname, currentDirectory, fileSystem, history, lines,
                  lastInput, command, result, closure >>
  /\ UNCHANGED << editorVars, roomVars, userVars >>

\* The oldest upsertActiveComment in flight fails: the error is caught and
\* logged, nothing reaches the shell.
UpsertRejects ==
  /\ pendingUpserts # << >>
  /\ pendingUpserts' = Tail(pendingUpserts)
  /\ UNCHANGED << nickname, currentDirectory, fileSystem, history, lines,
                  lastInput, command, result, activeComment, closure >>
  /\ UNCHANGED << editorVars, roomVars, userVars >>

Next == HandleKeyDownEnter \/ UpsertResolves \/ UpsertRejects

Spec == Init /\ [][Next]_vars

SpecAnyNickname == InitAnyNickname /\ [][Next]_vars

\* The clients of one chess room.
SpecRooms == Init /\ [][NextRooms]_vars

\* Two chess windows on one room code that may be closed; every call on the
\* room ends and every listener runs on a document that has changed.
SpecLeaving ==
  /\ Init /\ [][NextLeaving]_vars
  /\ \A c \in Clients :
       /\ WF_vars(CreateRoomGet(c) \/ CreateRoomSet(c) \/ LeaveRoom(c))
       /\ WF_vars(TxGet(c) \/ TxCommit(c))
       /\ WF_vars(Snapshot(c))

\* Two chess windows on one room code; every call on the room ends and
\* every listener is run on a document that has changed.
SpecBoards ==
  /\ Init /\ [][NextBoards]_vars
  /\ \A c \in Clients :
       /\ WF_vars(CreateRoomGet(c) \/ CreateRoomSet(c))
       /\ WF_vars(TxGet(c) \/ TxCommit(c))
       /\ WF_vars(Snapshot(c))

\* A command name, two spaces, one argument.
TypedWide(cmd, arg) == cmd \o S_space \o S_space \o arg

N_Documents == <<"D", "o", "c", "u", "m", "e", "n", "t", "s">>

\* Buffers with one and with two spaces between the tokens:
\* cd Documents | cd  Documents | mkdir x | mkdir  x | cd ..
SpacedInputs ==
  { Typed(S_cd, N_Documents), TypedWide(S_cd, N_Documents),
    Typed(S_mkdir, N_x), TypedWide(S_mkdir, N_x),
    Typed(S_cd, S_dotdot) }

HandleKeyDownEnterSpaced ==
  /\ \E raw \in SpacedInputs : EnterOn(raw)
  /\ UNCHANGED << editorVars, roomVars, userVars >>

\* A session whose lines carry one or two spaces between the tokens.
SpecSpaced == Init /\ [][HandleKeyDownEnterSpaced]_vars

\* Buffers that create and list entries: mkdir x | mkdir ~ | mkdir al.txt |
\* comment hi | ls /home/al/al.txt | ls Documents | cd Documents | ls x
ListingInputs ==
  { Typed(S_mkdir, N_x), Typed(S_mkdir, S_tilde), Typed(S_mkdir, N_alTxt),
    Typed(S_comment, <<"h", "i">>),
    Typed(S_ls, N_absAlTxt), Typed(S_ls, N_Documents),
    Typed(S_cd, N_Documents), Typed(S_ls, N_x) }

HandleKeyDownEnterListing ==
  /\ \E raw \in ListingInputs : EnterOn(raw)
  /\ UNCHANGED << editorVars, roomVars, userVars >>

\* A session that creates entries and lists them.
SpecListing == Init /\ [][HandleKeyDownEnterListing]_vars

\* Buffers that change the directory: cd | cd ~ | cd - | cd .. |
\* cd Documents | cd Documents/ | mkdir x | cd x
CdInputs ==
  { S_cd, Typed(S_cd, S_tilde), Typed(S_cd, S_dash), Typed(S_cd, S_dotdot),
    Typed(S_cd, N_Documents), Typed(S_cd, N_Documents \o S_slash),
    Typed(S_mkdir, N_x), Typed(S_cd, N_x) }

HandleKeyDownEnterCd ==
  /\ \E raw \in CdInputs : EnterOn(raw)
  /\ UNCHANGED << editorVars, roomVars, userVars >>

\* A session that moves through the tree.
SpecCd == Init /\ [][HandleKeyDownEnterCd]_vars

\* The devices that post to the save-nickname endpoint.
SpecUsers == Init /\ [][NextUsers]_vars

\* The nickname the page hands to useTerminal changes (setNickname, when
\* the answer of get-nickname arrives after the nickname screen was
\* passed): the effect on [nickname] starts the session afresh and empties
\* the display log.  "bo" is the nickname changed to.
OtherNickname == <<"b", "o">>

\* Faulty variant: the tree of the earlier nickname is kept.
NicknameEffect_KeepingTree ==
  /\ nickname \in Nicknames
  /\ nickname' = OtherNickname
  /\ currentDirectory' = HomePath(nickname')
  /\ history' = << >>
  /\ lines' = << >>
  /\ UNCHANGED << fileSystem, lastInput, command, result, pendingUpserts,
                  activeComment, closure >>
  /\ UNCHANGED << editorVars, roomVars, userVars >>

NicknameEffect ==
  /\ nickname \in Nicknames
  /\ nickname' = OtherNickname
  /\ currentDirectory' = HomePath(nickname')
  /\ fileSystem' = createFileSystem(nickname')
  /\ history' = << >>
  /\ lines' = << >>
  /\ UNCHANGED << lastInput, command, result, pendingUpserts, activeComment,
                  closure >>
  /\ UNCHANGED << editorVars, roomVars, userVars >>

\* The buffers Enter is pressed on in the sessions that see the nickname
\* change: ls | " pwd " | mkdir x | clear | foo | "  "
LogInputs ==
  { S_ls, S_space \o S_pwd \o S_space, Typed(S_mkdir, N_x), S_clear,
    <<"f", "o", "o">>, S_space \o S_space }

HandleKeyDownEnterLogged ==
  /\ \E raw \in LogInputs : EnterOn(raw)
  /\ UNCHANGED << editorVars, roomVars, userVars >>

NextNicknameChange == HandleKeyDownEnterLogged \/ NicknameEffect

SpecNicknameChange == Init /\ [][NextNicknameChange]_vars

-----------------------------------------------------------------------------
(* TerminalInput: the editor of the input line and its Tab completion.     *)

\* Presses of Tab between two edits of the buffer.
MaxTabs == 4

\* Lines submitted in a session in which completions are tried.
MaxTabSubmits == 1

\* getCurrentDirectoryContents, getCurrentDirectories, getCurrentFiles:
\* the names of the children of the current directory that are of one of
\* the kinds, in array order.
CurrentNames(fs, cwd, kinds) ==
  LET currentDir == getNodeAtPath(fs, cwd)
  IN  IF currentDir = Null \/ fs[currentDir].type # "directory" THEN << >>
      ELSE LET kept == SelectSeq(fs[currentDir].children,
                                 LAMBDA c : fs[c].type \in kinds)
           IN  [i \in 1..Len(kept) |-> fs[kept[i]].name]

\* String.prototype.toLowerCase
ToLowerCase(s) == [i \in 1..Len(s) |-> ToLower(s[i])]

\* The list the command chooses: directories for cd, files for open.
AvailableItems(cmd, fs, cwd) ==
  IF cmd = S_cd THEN CurrentNames(fs, cwd, {"directory"})
  ELSE IF cmd = S_open THEN CurrentNames(fs, cwd, {"file"})
  ELSE CurrentNames(fs, cwd, {"directory", "file"})

\* words[words.length - 1] = word; words.join(" ")
WithLastWord(words, word) ==
  Join([words EXCEPT ![Len(words)] = word], " ")

\* Faulty variant: the index stops at the last match instead of wrapping.
NextIndex_NoWrap(st) ==
  IF st.currentIndex + 1 < Len(st.matches) THEN st.currentIndex + 1
  ELSE st.currentIndex

\* (currentIndex + 1) % matches.length
NextIndex(st) == (st.currentIndex + 1) % Len(st.matches)

\* handleTabCompletion: the buffer and the tabCompletionState it sets.
handleTabCompletion(inp, st, fs, cwd) ==
  LET words == Split(inp, " ")
      currentWord == words[Len(words)]
      cmd == ToLowerCase(words[1])
      availableItems == AvailableItems(cmd, fs, cwd)
      matches == SelectSeq(availableItems,
                           LAMBDA name : StartsWith(name, currentWord))
      Cycling(m, partial) ==
        [ matches |-> m, currentIndex |-> 0, originalPartial |-> partial,
          isCycling |-> TRUE ]
  IN  IF st.isCycling
      THEN [ input |-> WithLastWord(words, st.matches[NextIndex(st) + 1]),
             state |-> [st EXCEPT !.currentIndex = NextIndex(st)] ]
      ELSE IF currentWord = << >>
      THEN IF Len(availableItems) > 0
           THEN [ input |-> WithLastWord(words, availableItems[1]),
                  state |-> Cycling(availableItems, << >>) ]
           ELSE [ input |-> inp, state |-> st ]
      ELSE IF Len(matches) = 1
      THEN [ input |-> WithLastWord(words, matches[1]), state |-> NoCompletion ]
      ELSE IF Len(matches) > 1
      THEN [ input |-> WithLastWord(words, matches[1]),
             state |-> Cycling(matches, currentWord) ]
      ELSE [ input |-> inp, state |-> NoCompletion ]

\* The buffers an edit leaves: cd D | cd a | open a | a | "cd " | comment hi
\* | "open "
TabInputs ==
  { Typed(S_cd, <<"D">>), Typed(S_cd, <<"a">>), Typed(S_open, <<"a">>), <<"a">>,
    S_cd \o S_space, Typed(S_comment, <<"h", "i">>), S_open \o S_space }

\* Faulty variant: the edit leaves the cycling as it is.
HandleInput_KeepingCycle ==
  /\ \E text \in TabInputs :
       /\ input' = text
       /\ typed' = text
  /\ tabPresses' = 0
  /\ lastCycle' = tabCompletionState
  /\ UNCHANGED << tabCompletionState, historyIndex >>
  /\ UNCHANGED << shellVars, roomVars, userVars >>

\* onInput: the buffer is edited, which ends any cycling.
HandleInput ==
  /\ \E text \in TabInputs :
       /\ input' = text
       /\ typed' = text
  /\ tabCompletionState' = NoCompletion
  /\ tabPresses' = 0
  /\ lastCycle' = tabCompletionState
  /\ UNCHANGED << historyIndex, shellVars, roomVars, userVars >>

\* The Tab key.
HandleKeyDownTab ==
  /\ tabPresses < MaxTabs
  /\ LET done == handleTabCompletion(input, tabCompletionState,
                                     fileSystem, currentDirectory)
     IN  /\ input' = done.input
         /\ tabCompletionState' = done.state
  /\ tabPresses' = tabPresses + 1
  /\ UNCHANGED << typed, lastCycle, historyIndex >>
  /\ UNCHANGED << shellVars, roomVars, userVars >>

\* The Enter key on the buffer as edited and completed: any key but Tab
\* ends the cycling; a non-blank buffer is submitted trimmed and emptied.
\* On a buffer that is undefined input.trim() throws.
HandleKeyDownEnterTyped ==
  /\ Len(history) < MaxTabSubmits
  /\ input # Undefined
  /\ EnterOn(input)
  /\ input' = IF Truthy(Trim(input)) THEN << >> ELSE input
  /\ typed' = input'
  /\ tabCompletionState' = NoCompletion
  /\ tabPresses' = 0
  /\ lastCycle' = tabCompletionState
  /\ historyIndex' = IF Truthy(Trim(input)) THEN -1 ELSE historyIndex
  /\ UNCHANGED << roomVars, userVars >>

NextTab == HandleInput \/ HandleKeyDownTab \/ HandleKeyDownEnterTyped

\* history[history.length - 1 - newIndex], undefined outside the array.
HistoryAt(newIndex) ==
  IF Len(history) - newIndex \in 1..Len(history)
  THEN history[Len(history) - newIndex]
  ELSE Undefined

\* The ArrowUp and ArrowDown keys: the cursor moves over the history and
\* the buffer takes the entry it reaches; any key but Tab ends the cycling.
HandleKeyDownArrow ==
  /\ \E key \in { "ArrowUp", "ArrowDown" } :
       LET newIndex == IF key = "ArrowUp" THEN historyIndex + 1
                       ELSE historyIndex - 1
       IN  IF \/ key = "ArrowUp" /\ historyIndex < Len(history) - 1
              \/ key = "ArrowDown" /\ historyIndex > 0
           THEN historyIndex' = newIndex /\ input' = HistoryAt(newIndex)
           ELSE IF key = "ArrowDown" /\ historyIndex = 0
           THEN historyIndex' = -1 /\ input' = << >>
           ELSE UNCHANGED << historyIndex, input >>
  /\ typed' = input'
  /\ tabCompletionState' = NoCompletion
  /\ tabPresses' = 0
  /\ lastCycle' = tabCompletionState
  /\ UNCHANGED << shellVars, roomVars, userVars >>

NextHistory ==
  \/ HandleInput
  \/ HandleKeyDownEnterTyped
  \/ HandleKeyDownArrow
  \/ NicknameEffect

\* A session whose lines are typed, submitted and called back with the
\* arrow keys.
SpecHistory == Init /\ [][NextHistory]_vars

SpecTab == Init /\ [][NextTab]_vars

\* The same session, in which the nickname may change.
SpecTabNickname == Init /\ [][NextTab \/ NicknameEffect]_vars

-----------------------------------------------------------------------------
(* Helpers of the claims.                                                  *)

\* A line has been submitted to the session, and command is that line.
Submitted == command # Undefined

\* The step hands a line to executeCommandLine.
SubmitStep == history' # history

\* The directory node currentDirectory resolves to (Null when it does not).
CurrentNode == getNodeAtPath(fileSystem, currentDirectory)

\* The names of the children of node n, in array order.
ChildNames(fs, n) ==
  [i \in 1..Len(fs[n].children) |-> fs[fs[n].children[i]].name]

\* How many children of node n are named name.
CountNamed(fs, n, name) ==
  Cardinality({ i \in 1..Len(fs[n].children) :
                  fs[fs[n].children[i]].name = name })

\* The k-th most recent entry of the history (1: the latest).
Recent(k) == history[Len(history) + 1 - k]

-----------------------------------------------------------------------------
(* C1: in every reachable state of a session started with any nickname,    *)
(* currentDirectory resolves through getNodeAtPath to an existing node of  *)
(* type directory.  Refuted under SpecAnyNickname: with the nickname "a/b" *)
(* the session starts in /home/a/b, which getNodeAtPath reads as the       *)
(* child b of a child a of home, while the tree holds one child "a/b".     *)
C1_CurrentDirectoryResolves ==
  /\ CurrentNode # Null
  /\ fileSystem[CurrentNode].type = "directory"

-----------------------------------------------------------------------------
(* C2: whenever the interpreter returns a result carrying an error for a   *)
(* submitted line, currentDirectory and the file-system tree are the same  *)
(* after the line as before it; only history and the display log change.   *)
C2_ErrorChangesNoState ==
  [][ (SubmitStep /\ Truthy(result'.error)) =>
        /\ currentDirectory' = currentDirectory
        /\ fileSystem' = fileSystem ]_vars

\* A mkdir refused for a name held by a file: the case where the session's
\* own duplicate test (directories only) would not have stopped the push.
C2_Witness ==
  /\ Submitted
  /\ command = Typed(S_mkdir, N_alTxt)
  /\ Truthy(result.error)
  /\ CurrentNode # Null
  /\ FindChild(fileSystem, CurrentNode, N_alTxt) # Null
  /\ fileSystem[FindChild(fileSystem, CurrentNode, N_alTxt)].type = "file"

-----------------------------------------------------------------------------
(* C3: cd <target> where the resolved target does not exist or is a file   *)
(* leaves currentDirectory unchanged and appends, after the echoed command *)
(* line, exactly one error line and no output line.                        *)

\* The path a cd argument denotes, for an argument that is none of the
\* home shorthands.
C3_Resolved(cwd, target) ==
  IF target = S_dotdot THEN getParentPath(cwd)
  ELSE IF StartsWith(target, S_slash) THEN target
  ELSE JoinPath(cwd, target)

C3_MissingTarget(fs, cwd, target) ==
  LET node == getNodeAtPath(fs, C3_Resolved(cwd, target))
  IN  node = Null \/ fs[node].type = "file"

C3_CdToMissingOrFile ==
  [][ ( /\ SubmitStep
        /\ ParseCmd(command') = S_cd
        /\ Truthy(FirstArg(ParseArgs(command')))
        /\ FirstArg(ParseArgs(command')) \notin { S_tilde, S_dash }
        /\ C3_MissingTarget(fileSystem, currentDirectory,
                            FirstArg(ParseArgs(command'))) ) =>
        /\ currentDirectory' = currentDirectory
        /\ Len(lines') = Len(lines) + 2
        /\ SubSeq(lines', 1, Len(lines)) = lines
        /\ lines'[Len(lines) + 1] = CommandLine(command', currentDirectory)
        /\ lines'[Len(lines) + 2].type = "error" ]_vars

\* cd al.txt has been refused where al.txt is a file of the directory.
C3_Witness ==
  /\ Submitted
  /\ command = Typed(S_cd, N_alTxt)
  /\ Truthy(result.error)
  /\ CurrentNode # Null
  /\ FindChild(fileSystem, CurrentNode, N_alTxt) # Null
  /\ fileSystem[FindChild(fileSystem, CurrentNode, N_alTxt)].type = "file"
  /\ lines[Len(lines)].type = "error"

-----------------------------------------------------------------------------
(* C4: no directory ever has two children with the same name, whatever     *)
(* their kinds; and a mkdir repeated in the same directory returns the     *)
(* conflict error "File exists", the directory holding exactly one child   *)
(* of that name.                                                           *)

C4_SiblingNamesUnique ==
  \A n \in 1..Len(fileSystem) :
    \A i, j \in 1..Len(fileSystem[n].children) :
      i # j => fileSystem[fileSystem[n].children[i]].name
                 # fileSystem[fileSystem[n].children[j]].name

C4_RepeatedMkdir ==
  ( /\ Len(history) >= 2
    /\ Recent(1) = Recent(2)
    /\ ParseCmd(Recent(1)) = S_mkdir
    /\ Len(ParseArgs(Recent(1))) = 1
    /\ ~ Includes(FirstArg(ParseArgs(Recent(1))), S_slash) ) =>
    LET dirName == FirstArg(ParseArgs(Recent(1)))
    IN  /\ result.error = <<"m", "k", "d", "i", "r", ":", " ", "c", "a", "n", "n", "o", "t", " ", "c", "r", "e", "a", "t", "e", " ", "d", "i", "r", "e", "c", "t", "o", "r", "y", " ", "'">> \o dirName
                            \o <<"'", ":", " ", "F", "i", "l", "e", " ", "e", "x", "i", "s", "t", "s">>
        /\ CurrentNode # Null
        /\ CountNamed(fileSystem, CurrentNode, dirName) = 1

C4_NoDuplicateSiblings == C4_SiblingNamesUnique /\ C4_RepeatedMkdir

\* mkdir x twice in a row: the second one is refused.
C4_Witness ==
  /\ Len(history) >= 2
  /\ Recent(1) = Typed(S_mkdir, N_x)
  /\ Recent(2) = Typed(S_mkdir, N_x)
  /\ Truthy(result.error)
  /\ CountNamed(fileSystem, CurrentNode, N_x) = 1

-----------------------------------------------------------------------------
(* C5: for every name that mkdir <name> accepts without error in a         *)
(* directory D, cd <name> submitted next succeeds and a following pwd      *)
(* outputs the single line D joined with <name>.  Refuted: mkdir ..        *)
(* is accepted in /home/al, the cd .. that follows goes to the parent      *)
(* /home, and pwd prints /home instead of /home/al/...                     *)

\* lines[i] echoes mkdir <name> and lines[i + 1] echoes cd <name>: the
\* mkdir appended neither an error nor an output line, so it was accepted.
C5_AcceptedAt(i, mkdirLine, cdLine) ==
  /\ i >= 1
  /\ i + 1 <= Len(lines)
  /\ lines[i].type = "command"
  /\ lines[i].content = mkdirLine
  /\ lines[i + 1].type = "command"
  /\ lines[i + 1].content = cdLine

\* Right after the cd: it returned no error and committed D/<name>.
C5_AfterCd ==
  ( /\ Len(history) >= 2
    /\ ParseCmd(Recent(2)) = S_mkdir
    /\ Len(ParseArgs(Recent(2))) = 1
    /\ Recent(1) = Typed(S_cd, FirstArg(ParseArgs(Recent(2)))) ) =>
    LET name == FirstArg(ParseArgs(Recent(2)))
        k == Len(lines)
        echo == IF lines[k].type = "error" THEN k - 1 ELSE k
    IN  C5_AcceptedAt(echo - 1, Recent(2), Recent(1)) =>
          /\ ~ Truthy(result.error)
          /\ currentDirectory = JoinPath(lines[echo - 1].directory, name)

\* Right after the pwd: its output is the one line D/<name>.
C5_AfterPwd ==
  ( /\ Len(history) >= 3
    /\ ParseCmd(Recent(3)) = S_mkdir
    /\ Len(ParseArgs(Recent(3))) = 1
    /\ Recent(2) = Typed(S_cd, FirstArg(ParseArgs(Recent(3))))
    /\ Recent(1) = S_pwd ) =>
    LET name == FirstArg(ParseArgs(Recent(3)))
        k == Len(lines)
    IN  \A i \in { k - 3, k - 4 } :
          ( /\ C5_AcceptedAt(i, Recent(3), Recent(2))
            /\ (i = k - 4 => lines[k - 2].type = "error") ) =>
            result = Success(<< JoinPath(lines[i].directory, name) >>)

C5_MkdirCdPwdRoundTrip == C5_AfterCd /\ C5_AfterPwd

-----------------------------------------------------------------------------
(* C6: cd .. sets currentDirectory to the path with its last segment       *)
(* removed and at the root leaves it at /; from the home directory         *)
(* /home/al three successive cd .. give /home, then /, then / again;       *)
(* getParentPath repeated on a path reaches / and getParentPath(/) is /.   *)

\* The path made of all segments of path but the last.
C6_WithoutLastSegment(path) ==
  LET segments == FilterBoolean(Split(path, "/"))
  IN  IF Len(segments) <= 1 THEN S_slash
      ELSE S_slash \o Join(SubSeq(segments, 1, Len(segments) - 1), S_slash)

RECURSIVE C6_Parents(_, _)
C6_Parents(path, n) ==
  IF n = 0 THEN path ELSE C6_Parents(getParentPath(path), n - 1)

\* The paths at hand in a state: the current directory, and the argument
\* of the latest line.
C6_PathsAtHand ==
  { currentDirectory } \cup
    ( IF Submitted /\ ParseArgs(command) # << >>
      THEN { FirstArg(ParseArgs(command)) } ELSE { } )

C6_Scenario ==
  /\ getParentPath(S_slash) = S_slash
  /\ \A p \in C6_PathsAtHand :
       /\ C6_Parents(p, Len(p)) = S_slash
       /\ C6_Parents(p, Len(p) + 1) = S_slash
  /\ ( /\ nickname = <<"a", "l">>
       /\ history # << >>
       /\ \A i \in 1..Len(history) : history[i] = Typed(S_cd, S_dotdot) ) =>
       currentDirectory = IF Len(history) = 1 THEN <<"/", "h", "o", "m", "e">> ELSE S_slash

C6_CdParent ==
  /\ [] C6_Scenario
  /\ [][ (SubmitStep /\ command' = Typed(S_cd, S_dotdot)) =>
           /\ ~ Truthy(result'.error)
           /\ currentDirectory' = C6_WithoutLastSegment(currentDirectory)
           /\ (currentDirectory = S_slash => currentDirectory' = S_slash)
       ]_vars

\* The third cd .. in a row, taken at the root.
C6_Witness ==
  /\ Len(history) = 3
  /\ \A i \in 1..3 : history[i] = Typed(S_cd, S_dotdot)
  /\ currentDirectory = S_slash
  /\ ~ Truthy(result.error)

-----------------------------------------------------------------------------
(* C7: ls of a directory outputs one line per child, all directories       *)
(* before all files and each group in alphabetical order of name,          *)
(* whatever the order in which the children were created; ls of a          *)
(* directory with no children outputs no line and no error.  (ls with no   *)
(* path lists the current directory, ls with an absolute path that one.)   *)

\* The path the latest ls was asked to list.
C7_ListedPath ==
  IF ParseArgs(command) # << >>
     /\ ~ StartsWith(FirstArg(ParseArgs(command)), S_dash)
  THEN FirstArg(ParseArgs(command))
  ELSE currentDirectory

\* The kind of the child of directory d named name.
C7_Kind(d, name) == fileSystem[FindChild(fileSystem, d, name)].type

C7_LsOrder ==
  ( /\ Submitted
    /\ ParseCmd(command) = S_ls
    /\ StartsWith(C7_ListedPath, S_slash)
    /\ isValidPath(C7_ListedPath)
    /\ getNodeAtPath(fileSystem, C7_ListedPath) # Null
    /\ fileSystem[getNodeAtPath(fileSystem, C7_ListedPath)].type
         = "directory" ) =>
    LET d == getNodeAtPath(fileSystem, C7_ListedPath)
        out == result.output
    IN  /\ ~ Truthy(result.error)
        /\ Len(out) = Len(fileSystem[d].children)
        /\ { out[i] : i \in 1..Len(out) }
             = { fileSystem[c].name :
                   c \in { fileSystem[d].children[i] :
                             i \in 1..Len(fileSystem[d].children) } }
        /\ \A i, j \in 1..Len(out) :
             i < j =>
               /\ C7_Kind(d, out[i]) = "file" => C7_Kind(d, out[j]) = "file"
               /\ C7_Kind(d, out[i]) = C7_Kind(d, out[j]) =>
                    localeCompare(out[i], out[j]) < 0
        /\ lines # << >>
        /\ ( Len(out) = 0 => lines[Len(lines)].type = "command" )

\* comment, then mkdir, then ls: the file was created before the directory
\* x and is listed after it, and the four directories of the home, created
\* as active, Documents, Downloads, Desktop, are listed in order.
C7_Witness ==
  /\ Submitted
  /\ command = S_ls
  /\ result.output = << <<"a", "c", "t", "i", "v", "e">>, <<"D", "e", "s", "k", "t", "o", "p">>, <<"D", "o", "c", "u", "m", "e", "n", "t", "s">>, <<"D", "o", "w", "n", "l", "o", "a", "d", "s">>,
                        N_x, N_alTxt >>

\* ls in a directory just created.
C7_WitnessEmpty ==
  /\ Submitted
  /\ command = S_ls
  /\ CurrentNode # Null
  /\ fileSystem[CurrentNode].children = << >>
  /\ result = Success(<< >>)

-----------------------------------------------------------------------------
(* C8: every comment <text> with at least one argument, submitted in       *)
(* directory D, returns no error, leaves D with exactly one child named    *)
(* <nickname>.txt, a file, and open <nickname>.txt in D then outputs       *)
(* exactly the arguments joined by single spaces, whether or not that name *)
(* existed in D before.  Refuted: after mkdir al.txt the name is held by   *)
(* a directory, createFile and updateFile both fail, and comment hi        *)
(* returns "comment: cannot update file 'al.txt': File not found".         *)

C8_AfterComment ==
  ( /\ Submitted
    /\ ParseCmd(command) = S_comment
    /\ Len(ParseArgs(command)) >= 1 ) =>
    /\ ~ Truthy(result.error)
    /\ CurrentNode # Null
    /\ CountNamed(fileSystem, CurrentNode, CommentFileName(nickname)) = 1
    /\ LET f == FindChild(fileSystem, CurrentNode, CommentFileName(nickname))
       IN  /\ fileSystem[f].type = "file"
           /\ fileSystem[f].content = Join(ParseArgs(command), S_space)

C8_AfterOpen ==
  ( /\ Len(history) >= 2
    /\ ParseCmd(Recent(2)) = S_comment
    /\ Len(ParseArgs(Recent(2))) >= 1
    /\ Recent(1) = Typed(S_open, CommentFileName(nickname)) ) =>
    result = Success(<< Join(ParseArgs(Recent(2)), S_space) >>)

C8_CommentRoundTrip == C8_AfterComment /\ C8_AfterOpen

-----------------------------------------------------------------------------
(* C9: open <name> resolves <name> against currentDirectory unless it      *)
(* starts with /; when the resolved path is absent or is a directory the   *)
(* result is the error "open: <name>: No such file" and no output line is  *)
(* appended; when it is a file the result is exactly one output line       *)
(* holding the file's content.                                             *)

C9_Path(name) ==
  IF StartsWith(name, S_slash) THEN name
  ELSE IF currentDirectory = S_slash THEN S_slash \o name
  ELSE currentDirectory \o S_slash \o name

C9_Open ==
  ( /\ Submitted
    /\ ParseCmd(command) = S_open
    /\ ParseArgs(command) # << >> ) =>
    LET name == FirstArg(ParseArgs(command))
        node == getNodeAtPath(fileSystem, C9_Path(name))
        k == Len(lines)
    IN  /\ k >= 2
        /\ lines[k - 1] = CommandLine(command, currentDirectory)
        /\ IF node = Null \/ fileSystem[node].type = "directory"
           THEN /\ result = Failure(<<"o", "p", "e", "n", ":", " ">> \o name \o <<":", " ", "N", "o", " ", "s", "u", "c", "h", " ", "f", "i", "l", "e">>)
                /\ lines[k] = ErrorLine(result.error)
           ELSE /\ result = Success(<< fileSystem[node].content >>)
                /\ lines[k] = OutputLine(fileSystem[node].content)

\* An absolute name opened from another directory than the file's.
C9_Witness ==
  /\ Submitted
  /\ command = Typed(S_open, N_absAlTxt)
  /\ currentDirectory # HomePath(nickname)
  /\ result = Success(<< <<"h", "i">> >>)

\* A relative name that is a directory of the current directory.
C9_WitnessDirectory ==
  /\ Submitted
  /\ command = Typed(S_open, N_alTxt)
  /\ CurrentNode # Null
  /\ FindChild(fileSystem, CurrentNode, N_alTxt) # Null
  /\ fileSystem[FindChild(fileSystem, CurrentNode, N_alTxt)].type = "directory"
  /\ Truthy(result.error)

-----------------------------------------------------------------------------
(* C10: every submitted line that is not blank appends exactly one entry,  *)
(* equal to that line, at the end of the history, whether the command      *)
(* succeeds, errors or is unknown; Enter on an empty or blank buffer       *)
(* changes neither the history nor the display log.  (The line submitted   *)
(* to the session is the buffer as TerminalInput trims it.)                *)

\* The step is an Enter key press: the upsert steps are the ones that
\* take a call out of flight.
C10_EnterStep == Len(pendingUpserts') >= Len(pendingUpserts)

C10_History ==
  [][ C10_EnterStep =>
        IF Truthy(Trim(lastInput'))
        THEN /\ command' = Trim(lastInput')
             /\ history' = Append(history, command')
        ELSE /\ history' = history
             /\ lines' = lines ]_vars

\* Enter on a blank buffer, after a line that was recorded although its
\* command is unknown and after one that succeeded.
C10_Witness ==
  /\ lastInput = S_space \o S_space
  /\ Len(history) = 2
  /\ history[1] = S_pwd
  /\ history[2] = <<"f", "o", "o">>
  /\ Truthy(result.error)

-----------------------------------------------------------------------------
(* C11: the display log changes only by appending lines at its end or by   *)
(* being emptied completely; it is emptied only by a clear command or a    *)
(* nickname change; right after a clear command has been processed the log *)
(* is empty, the echoed clear line included; lines already in the log are  *)
(* never modified or reordered.                                            *)

\* The log after the step extends the log before it.
C11_Appended ==
  /\ Len(lines') >= Len(lines)
  /\ SubSeq(lines', 1, Len(lines)) = lines

\* The step processes a clear command.
C11_ClearStep == SubmitStep /\ ParseCmd(command') = S_clear

C11_DisplayLog ==
  [][ /\ C11_Appended \/ lines' = << >>
      /\ (lines # << >> /\ lines' = << >>) =>
           (C11_ClearStep \/ nickname' # nickname)
      /\ C11_ClearStep => lines' = << >> ]_vars

\* A clear processed after two recorded lines, of which one had output.
C11_Witness ==
  /\ Len(history) = 3
  /\ history[1] = S_ls
  /\ ParseCmd(command) = S_clear
  /\ lines = << >>

\* A nickname change after lines were logged.
C11_WitnessNickname ==
  /\ nickname = OtherNickname
  /\ Submitted
  /\ history = << >>
  /\ lines = << >>

-----------------------------------------------------------------------------
(* C12: with the candidates being the current directory's entries whose    *)
(* names start with the typed partial word, in listed order, the k-th      *)
(* consecutive Tab press with no edit in between replaces the last word of *)
(* the input by the candidate at index (k-1) mod n; while cycling the      *)
(* candidate list is non-empty and the cursor index stays within it.       *)
(* Refuted as stated, since after cd only directories and after open only  *)
(* files are candidates; it holds with the candidates so restricted.       *)

\* The words of the buffer as the latest edit left it.
C12_Words == Split(typed, " ")

\* The entries of the kinds whose names start with the typed partial word.
C12_Candidates(kinds) ==
  SelectSeq(CurrentNames(fileSystem, currentDirectory, kinds),
            LAMBDA name : StartsWith(name, C12_Words[Len(C12_Words)]))

\* After k presses the last word is the candidate at (k-1) mod n.
C12_Cycles(cands) ==
  (tabPresses >= 1 /\ Len(cands) > 0) =>
    input = Join(SliceButLast(C12_Words)
                   \o << cands[((tabPresses - 1) % Len(cands)) + 1] >>, " ")

C12_CursorInRange ==
  tabCompletionState.isCycling =>
    /\ tabCompletionState.matches # << >>
    /\ tabCompletionState.currentIndex \in
         0..(Len(tabCompletionState.matches) - 1)

\* The claim as stated: every entry is a candidate.
C12_TabCyclesAllEntries ==
  /\ C12_Cycles(C12_Candidates({"directory", "file"}))
  /\ C12_CursorInRange

\* The kinds the first word of the buffer asks for.
C12_Kinds ==
  IF ToLowerCase(C12_Words[1]) = S_cd THEN {"directory"}
  ELSE IF ToLowerCase(C12_Words[1]) = S_open THEN {"file"}
  ELSE {"directory", "file"}

\* The claim with the candidates of the kind the command takes.
C12_TabCycles ==
  /\ C12_Cycles(C12_Candidates(C12_Kinds))
  /\ C12_CursorInRange

\* The fourth Tab on cd D in the home directory wraps to Documents.
C12_Witness ==
  /\ typed = Typed(S_cd, <<"D">>)
  /\ tabPresses = 4
  /\ currentDirectory = HomePath(nickname)
  /\ tabCompletionState.isCycling
  /\ Len(tabCompletionState.matches) = 3
  /\ input = Typed(S_cd, <<"D", "o", "c", "u", "m", "e", "n", "t", "s">>)

-----------------------------------------------------------------------------
(* Helpers of the claims on the chess rooms.                               *)

\* The step ends the call of client c.
CallEnds(c) == calls[c].pc # "done" /\ calls'[c].pc = "done"

\* The step ends the call of client c, a call of op, without an error.
Succeeds(c, op) ==
  calls[c].op = op /\ CallEnds(c) /\ calls'[c].outcome = "ok"

\* The step ends the call of client c, a call of op, with an error.
Fails(c, op) ==
  calls[c].op = op /\ CallEnds(c) /\ calls'[c].outcome # "ok"

-----------------------------------------------------------------------------
(* C13: of the submitMove calls on a room document that carry the same     *)
(* expectVersion at most one commits; a call commits only when the stored  *)
(* version equals its expectVersion, and is rejected as stale only when it *)
(* does not, so that of the calls made against the stored version exactly  *)
(* one commits; the commit raises the stored version by exactly 1, and a   *)
(* rejected call leaves fen, turn, lastMove and version unchanged.         *)

\* The moves the document has taken were expected at versions 0, 1, 2, ...
\* in turn: no expectVersion has been committed twice.
C13_OneCommitPerVersion ==
  room.exists =>
    /\ room.version = Len(commits)
    /\ \A i \in 1..Len(commits) : commits[i] = i - 1

C13_SubmitStep(c) ==
  /\ Succeeds(c, "submitMove") =>
       /\ room.exists
       /\ room.version = calls[c].expectVersion
       /\ room' = [room EXCEPT !.fen = calls[c].nextFen,
                               !.turn = calls[c].nextTurn,
                               !.lastMove = calls[c].move,
                               !.version = room.version + 1]
  /\ Fails(c, "submitMove") =>
       /\ room' = room
       /\ IF room.exists
          THEN calls'[c].outcome = "Stale state"
               /\ room.version # calls[c].expectVersion
          ELSE calls'[c].outcome = "Room not found"

-----------------------------------------------------------------------------
(* C14: createRoom for a code whose room document already exists fails     *)
(* with an error and leaves the existing document unchanged; of two        *)
(* createRoom calls for the same code that run concurrently at most one    *)
(* succeeds, and the document of the one that succeeded is not overwritten *)
(* by the other.  Refuted: getDoc and setDoc are two steps, both calls can *)
(* find no document, and the second setDoc replaces the first's document.  *)

C14_CreateRoomNeverOverwrites ==
  [][\A c \in Clients :
       (calls[c].op = "createRoom" /\ CallEnds(c) /\ room.exists) =>
         (calls'[c].outcome # "ok" /\ room' = room)]_vars

-----------------------------------------------------------------------------
(* C15: joinRoom fails and leaves the room document unchanged when the     *)
(* room does not exist, its status is finished, or both seats are          *)
(* occupied; otherwise it fills exactly one empty seat with the joiner,    *)
(* white before black, never replaces an occupied seat, and sets status to *)
(* active exactly when both seats are filled afterwards, under any         *)
(* interleaving of concurrent joins.                                       *)

\* Both seats of the document are occupied.
C15_Full(data) ==
  data.players.white # NoValue /\ data.players.black # NoValue

\* The seat joinRoom is to fill.
C15_Seat == IF room.players.white = NoValue THEN "white" ELSE "black"

C15_JoinStep(c) ==
  /\ Fails(c, "joinRoom") =>
       /\ room' = room
       /\ ~ room.exists \/ room.status = "finished" \/ C15_Full(room)
  /\ Succeeds(c, "joinRoom") =>
       /\ room.exists /\ room.status # "finished" /\ ~ C15_Full(room)
       /\ room.players[C15_Seat] = NoValue
       /\ room'.players = [room.players EXCEPT ![C15_Seat] = c]
       /\ room'.status = IF C15_Full(room') THEN "active" ELSE "waiting"
       /\ room'.fen = room.fen /\ room'.turn = room.turn
       /\ room'.version = room.version /\ room'.lastMove = room.lastMove
       /\ room'.host = room.host

C15_JoinRoom == [][\A c \in Clients : C15_JoinStep(c)]_vars

\* Two joins on a room with one seat taken: one got the seat, the other
\* found the room full.
C15_Witness ==
  /\ \A c \in Clients : calls[c].op = "joinRoom" /\ calls[c].pc = "done"
  /\ calls["c1"].outcome = "Room full"
  /\ calls["c2"].outcome = "ok"
  /\ room.players = [white |-> "c1", black |-> "c2"]
  /\ room.status = "active"

-----------------------------------------------------------------------------
(* C16: a non-empty line whose first token is not one of the dispatcher's  *)
(* command names yields a result whose error is exactly                    *)
(* command not found: <token> with the attempted token, no output line,    *)
(* and no change to currentDirectory or the file system.  Refuted as       *)
(* stated: the error goes on with a line break and the hint                *)
(* type "help" for a list of commands; with that text it holds.            *)

C16_CommandNames ==
  { S_cd, S_ls, S_mkdir, S_chess, S_comment, S_open, S_clear, S_pwd,
    S_whoami, S_help }

\* The step processes a line whose first token is no command name.
C16_UnknownStep == SubmitStep /\ ParseCmd(command') \notin C16_CommandNames

\* What the claim says of such a step, the error text being text.
C16_Rejected(text) ==
  /\ result' = [ output |-> << >>, error |-> text ]
  /\ currentDirectory' = currentDirectory
  /\ fileSystem' = fileSystem

\* The claim as stated.
C16_UnknownCommandBare ==
  [][ C16_UnknownStep =>
        C16_Rejected(<<"c", "o", "m", "m", "a", "n", "d", " ", "n", "o", "t", " ", "f", "o", "u", "n", "d", ":", " ">> \o ParseCmd(command')) ]_vars

\* The claim with the error text the dispatcher builds.
C16_UnknownCommand ==
  [][ C16_UnknownStep =>
        C16_Rejected(<<"c", "o", "m", "m", "a", "n", "d", " ", "n", "o", "t", " ", "f", "o", "u", "n", "d", ":", " ">> \o ParseCmd(command') \o << "\n" >>
                       \o <<"t", "y", "p", "e", " ", "\"", "h", "e", "l", "p", "\"", " ", "f", "o", "r", " ", "a", " ", "l", "i", "s", "t", " ", "o", "f", " ", "c", "o", "m", "m", "a", "n", "d", "s">>) ]_vars

\* foo submitted in a directory other than home, after a mkdir.
C16_Witness ==
  /\ Len(history) = 3
  /\ command = <<"f", "o", "o">>
  /\ Truthy(result.error)
  /\ currentDirectory # HomePath(nickname)
  /\ Len(fileSystem) > Len(createFileSystem(nickname))

-----------------------------------------------------------------------------
(* C17: executeCommand never mutates the session state it is given: for    *)
(* every command line the file-system tree (set of nodes, file contents    *)
(* and the order of each directory's children) is the same after the call  *)
(* returns as before it, and every state change is applied afterwards by   *)
(* the session hook.  Refuted: executeLs sorts the children array of the   *)
(* listed directory in place, and executeComment calls createFile and      *)
(* updateFile on the tree of the state.                                    *)

C17_ExecuteCommandIsPure ==
  [][ SubmitStep =>
        executeCommand(command', currentDirectory, fileSystem, nickname).fs
          = fileSystem ]_vars

-----------------------------------------------------------------------------
(* C18: for every current directory and every target that cd accepts, the  *)
(* path committed as currentDirectory starts with the separator /; hence   *)
(* currentDirectory starts with / in every reachable state.                *)

\* The step processes a cd that returned no error.
C18_CdAccepted ==
  SubmitStep /\ ParseCmd(command') = S_cd /\ ~ Truthy(result'.error)

C18_AbsoluteDirectory ==
  /\ [] StartsWith(currentDirectory, S_slash)
  /\ [][ C18_CdAccepted => StartsWith(currentDirectory', S_slash) ]_vars

\* A relative target accepted below the home directory.
C18_Witness ==
  /\ command = Typed(S_cd, N_x)
  /\ ~ Truthy(result.error)
  /\ currentDirectory = HomePath(nickname) \o S_slash \o N_x

-----------------------------------------------------------------------------
(* C19: the save-nickname endpoint prevents duplicate nicknames: a request *)
(* whose nickname is already stored in a user record is answered 409 and   *)
(* writes nothing, so that after any interleaving of save-nickname         *)
(* requests from different devices no two user records hold the same       *)
(* nickname.  Refuted: the check and the write are two calls, and two      *)
(* requests that both check before either writes both store the nickname.  *)

C19_NoDuplicateNicknames ==
  \A d, e \in Devices :
    (d # e /\ users[d] # Undefined) => users[d] # users[e]

-----------------------------------------------------------------------------
(* C20: a raw line is split on whitespace into its non-empty tokens, so    *)
(* that extra spaces between the tokens never produce an empty argument:   *)
(* `cd  Documents` and `mkdir  x` written with two spaces give the result, *)
(* the directory and the tree that the same line with one space gives, in  *)
(* the interpreter and in the session hook alike.  Refuted: both split on  *)
(* the single space, and the first argument of the wide line is empty.     *)

C20_ExtraSpaces ==
  [][ \A cmd \in { S_cd, S_mkdir } : \A arg \in { N_Documents, N_x } :
        (lastInput' = TypedWide(cmd, arg) /\ history' # history) =>
          LET one == executeCommand(Typed(cmd, arg), currentDirectory,
                                    fileSystem, nickname)
          IN  /\ result' = one.result
              /\ currentDirectory' =
                   CommitDirectory(cmd, << arg >>, one.result,
                                   currentDirectory, nickname)
              /\ fileSystem' =
                   CommitFileSystem(cmd, << arg >>, one.result, one.fs,
                                    currentDirectory) ]_vars

-----------------------------------------------------------------------------
(* C21: mkdir with a name holding any character other than letters,        *)
(* digits, ".", "_" and "-" returns an error and creates no node; a name   *)
(* is accepted only when it is made of these characters and no sibling of  *)
(* any kind already has it.  Refuted: executeMkdir rejects only the empty  *)
(* name and a name holding "/", so mkdir ~ creates a directory named "~".  *)

C21_NameChars ==
  { "a", "b", "c", "d", "e", "f", "g", "h", "i", "j", "k", "l", "m", "n",
    "o", "p", "q", "r", "s", "t", "u", "v", "w", "x", "y", "z",
    "A", "B", "C", "D", "E", "F", "G", "H", "I", "J", "K", "L", "M", "N",
    "O", "P", "Q", "R", "S", "T", "U", "V", "W", "X", "Y", "Z",
    "0", "1", "2", "3", "4", "5", "6", "7", "8", "9", ".", "_", "-" }

C21_ValidName(name) ==
  /\ Len(name) > 0
  /\ \A i \in 1..Len(name) : name[i] \in C21_NameChars

C21_MkdirName ==
  [][ (history' # history /\ ParseCmd(command') = S_mkdir
         /\ ParseArgs(command') # << >>) =>
        LET name == ParseArgs(command')[1]
            dir == getNodeAtPath(fileSystem, currentDirectory)
        IN  /\ ~ C21_ValidName(name) =>
                 (result'.error # Undefined /\ fileSystem' = fileSystem)
            /\ result'.error = Undefined =>
                 (C21_ValidName(name) /\ FindChild(fileSystem, dir, name) = Null)
    ]_vars

-----------------------------------------------------------------------------
(* C22: ls <path> where the path resolves to a file returns exactly one    *)
(* output line equal to that file's name, and no error.  Refuted:          *)
(* executeLs answers "Not a directory" for a node that is not a directory. *)

\* The absolute path an argument of ls or cd stands for in cwd.
C22_Resolved(path, cwd) ==
  IF StartsWith(path, S_slash) THEN path ELSE JoinPath(cwd, path)

C22_LsFile ==
  [][ (history' # history /\ ParseCmd(command') = S_ls
         /\ ParseArgs(command') # << >>) =>
        LET path == C22_Resolved(ParseArgs(command')[1], currentDirectory)
            node == IF isValidPath(path)
                    THEN getNodeAtPath(fileSystem, path) ELSE Null
        IN  (node # Null /\ fileSystem[node].type = "file") =>
              /\ result'.error = Undefined
              /\ result'.output = << fileSystem[node].name >>
    ]_vars

-----------------------------------------------------------------------------
(* C23: ls <name> with a relative path resolves it against                 *)
(* currentDirectory as cd <name> does: whenever cd <name> would succeed    *)
(* from the current directory, ls <name> lists the entries of that same    *)
(* directory instead of reporting an error.  Refuted: executeLs hands the  *)
(* argument to isValidPath as typed, and a relative path is not valid.     *)

C23_LsRelative ==
  [][ (history' # history /\ ParseCmd(command') = S_ls
         /\ ParseArgs(command') # << >>) =>
        LET name == ParseArgs(command')[1]
            there == JoinPath(currentDirectory, name)
        IN  (/\ ~ StartsWith(name, S_slash)
             /\ name \notin { S_tilde, S_dash, S_dotdot }
             /\ executeCd(<< name >>, currentDirectory, fileSystem).error
                  = Undefined) =>
              /\ result'.error = Undefined
              /\ result' = executeLs(<< >>, there, fileSystem).result
    ]_vars

-----------------------------------------------------------------------------
(* C24: after any sequence of commands currentDirectory is a normalized    *)
(* absolute path: it has no empty, "." or ".." component and no trailing   *)
(* "/" unless it is exactly "/", so that a child directory that exists can *)
(* always be entered with cd <child>.  Refuted: cd Documents/ is accepted  *)
(* and committed as typed, with its trailing "/".                          *)

C24_Normalized(path) ==
  \/ path = S_slash
  \/ /\ StartsWith(path, S_slash)
     /\ path[Len(path)] # "/"
     /\ \A part \in { Tail(Split(path, "/"))[i] :
                        i \in 1..(Len(Split(path, "/")) - 1) } :
          part \notin { << >>, S_dot, S_dotdot }

\* Every child directory of the current directory is entered by cd <child>.
C24_ChildrenEntered ==
  LET dir == getNodeAtPath(fileSystem, currentDirectory)
  IN  dir # Null =>
        \A i \in 1..Len(fileSystem[dir].children) :
          LET child == fileSystem[fileSystem[dir].children[i]]
          IN  (child.type = "directory" /\ C21_ValidName(child.name)
                 /\ child.name # S_dotdot /\ child.name # S_dash) =>
                executeCd(<< child.name >>, currentDirectory, fileSystem).error
                  = Undefined

C24_NormalizedDirectory ==
  C24_Normalized(currentDirectory) /\ C24_ChildrenEntered

-----------------------------------------------------------------------------
(* C26: cd with no argument, with "~" or with "-" always succeeds and sets *)
(* currentDirectory to /home/<nickname> from any current directory; cd -   *)
(* goes to the home directory and not to the directory that was current    *)
(* before the last successful cd.                                          *)

C26_CdHome ==
  [][ (history' # history /\ ParseCmd(command') = S_cd
         /\ FirstArg(ParseArgs(command')) \in { Undefined, S_tilde, S_dash }) =>
        /\ result'.error = Undefined
        /\ result'.output = << >>
        /\ currentDirectory' = HomePath(nickname)
    ]_vars

\* cd .., cd .., cd -: from "/", with "/home" the directory before the last
\* successful cd, cd - has gone to the home directory.
C26_Witness ==
  /\ history = << Typed(S_cd, S_dotdot), Typed(S_cd, S_dotdot),
                  Typed(S_cd, S_dash) >>
  /\ currentDirectory = HomePath(nickname)
  /\ result.error = Undefined

-----------------------------------------------------------------------------
(* C25: within one session the tree only grows: every node that exists at  *)
(* some point exists at the same path with the same kind in every later    *)
(* state, whatever commands are submitted; the only changes are the        *)
(* addition of children and the replacement of a file's content by         *)
(* comment.  Nodes are taken by their paths: the order of the children of  *)
(* a directory is not part of the statement.                               *)

\* The nodes of the subtree at node, each as its path, kind and content.
RECURSIVE C25_Entries(_, _, _)
C25_Entries(fs, node, path) ==
  { [ path |-> path, type |-> fs[node].type, content |-> fs[node].content ] }
    \cup UNION { C25_Entries(fs, fs[node].children[i],
                             JoinPath(path, fs[fs[node].children[i]].name)) :
                   i \in 1..Len(fs[node].children) }

\* An entry is kept: found after the step with its path and kind, and with
\* its content unless the step is a comment.
C25_Kept(e, after, byComment) ==
  \E f \in after :
    /\ f.path = e.path
    /\ f.type = e.type
    /\ byComment \/ f.content = e.content

C25_TreeGrows ==
  [][ LET before == C25_Entries(fileSystem, Root, S_slash)
          after == C25_Entries(fileSystem', Root, S_slash)
      IN  fileSystem' # fileSystem =>
            /\ \A e \in before :
                 C25_Kept(e, after,
                          e.type = "file" /\ history' # history
                            /\ ParseCmd(command') = S_comment)
            /\ Cardinality(after) >= Cardinality(before)
    ]_vars

\* mkdir x, comment hi, comment a b: the home directory has gained x and
\* al.txt, whose content has been replaced.
C25_Witness ==
  /\ history = << Typed(S_mkdir, N_x), Typed(S_comment, <<"h", "i">>),
                  Typed(S_comment, <<"a", " ", "b">>) >>
  /\ [ path |-> JoinPath(HomePath(nickname), N_x), type |-> "directory",
       content |-> Undefined ] \in C25_Entries(fileSystem, Root, S_slash)
  /\ [ path |-> JoinPath(HomePath(nickname), N_alTxt), type |-> "file",
       content |-> <<"a", " ", "b">> ] \in C25_Entries(fileSystem, Root, S_slash)

-----------------------------------------------------------------------------
(* C27: submitted lines are processed one after the other and each         *)
(* contributes to the display log, in this order, one command line echoing *)
(* the submitted line and then either exactly one error line or the        *)
(* result's output lines in order (nothing after a clear); the lines of a  *)
(* later submission never appear before the lines of an earlier one.       *)

C27_SubmissionLines ==
  [][ history' # history =>
        IF ParseCmd(command') = S_clear THEN lines' = << >>
        ELSE
          LET new == SubSeq(lines', Len(lines) + 1, Len(lines'))
          IN  /\ Len(lines') > Len(lines)
              /\ SubSeq(lines', 1, Len(lines)) = lines
              /\ new[1].type = "command"
              /\ new[1].content = command'
              /\ command' = history'[Len(history')]
              /\ IF Truthy(result'.error)
                 THEN /\ Len(new) = 2
                      /\ new[2].type = "error"
                      /\ new[2].content = result'.error
                 ELSE /\ Len(new) = 1 + Len(result'.output)
                      /\ \A i \in 1..Len(result'.output) :
                           /\ new[i + 1].type = "output"
                           /\ new[i + 1].content = result'.output[i]
    ]_vars

\* foo, then ls: the echo and the error of foo, then the echo of ls and its
\* four output lines.
C27_Witness ==
  /\ history = << <<"f", "o", "o">>, S_ls >>
  /\ Len(lines) = 7
  /\ lines[1].type = "command" /\ lines[1].content = <<"f", "o", "o">>
  /\ lines[2].type = "error"
  /\ lines[3].type = "command" /\ lines[3].content = S_ls
  /\ \A i \in 1..4 : lines[3 + i].type = "output"
                       /\ lines[3 + i].content = result.output[i]

-----------------------------------------------------------------------------
(* C28: a client whose submitMove is rejected for a stale version does not *)
(* keep its own move: once it has processed the latest room snapshot, with *)
(* no call of its own in flight, its local position equals the stored fen; *)
(* and under fair delivery of snapshots every subscribed client's local    *)
(* position eventually equals the stored fen, for good.                    *)

C28_InRoom(c) == boards[c].roomCode /\ room.exists

C28_LatestSnapshotRules ==
  \A c \in Clients :
    (C28_InRoom(c) /\ boards[c].seen = room /\ calls[c].pc = "done") =>
      /\ boards[c].fen = room.fen
      /\ boards[c].roomVersion = room.version

C28_Settled == \A c \in Clients : C28_InRoom(c) => boards[c].fen = room.fen

-----------------------------------------------------------------------------
(* C29: while tab-completion is cycling, an edit that makes the last word  *)
(* of the input differ from every candidate discards the cycling state,    *)
(* and the next Tab press computes its candidates afresh from the input    *)
(* and the current directory rather than continuing the old cycle.         *)

\* The last word of a buffer is none of the candidates of the cycle.
C29_Diverges(buffer, cycle) ==
  /\ cycle.isCycling
  /\ \A i \in 1..Len(cycle.matches) :
       cycle.matches[i] # Split(buffer, " ")[Len(Split(buffer, " "))]

C29_EditEndsCycle ==
  [][ /\ (tabPresses' = 0 /\ C29_Diverges(input', tabCompletionState)) =>
           ~ tabCompletionState'.isCycling
      /\ (tabPresses' = 1 /\ C29_Diverges(input, lastCycle)) =>
           /\ tabCompletionState'.isCycling =>
                /\ tabCompletionState'.matches = C12_Candidates(C12_Kinds)
                /\ tabCompletionState'.currentIndex = 0
           /\ C12_Candidates(C12_Kinds) # << >> =>
                input' = Join(SliceButLast(C12_Words)
                                \o << C12_Candidates(C12_Kinds)[1] >>, " ")
           /\ C12_Candidates(C12_Kinds) = << >> => input' = input
    ]_vars

\* cd D was cycling through Desktop, Documents and Downloads when the
\* buffer was edited to cd a; the Tab that followed completed it to
\* cd active.
C29_Witness ==
  /\ lastCycle.isCycling
  /\ Len(lastCycle.matches) = 3
  /\ typed = Typed(S_cd, <<"a">>)
  /\ C29_Diverges(typed, lastCycle)
  /\ tabPresses = 1
  /\ input = Typed(S_cd, <<"a", "c", "t", "i", "v", "e">>)
  /\ ~ tabCompletionState.isCycling

-----------------------------------------------------------------------------
(* C30: the history cursor always satisfies                                *)
(* -1 <= historyIndex <= length(history) - 1; ArrowUp moves it one entry   *)
(* towards older commands and stops at the oldest, ArrowDown moves it one  *)
(* entry towards newer ones and from index 0 returns to -1 with an empty   *)
(* input; whenever historyIndex >= 0 after a navigation the input equals   *)
(* history[length - 1 - historyIndex]; submitting a line resets the cursor *)
(* to -1.  Refuted: a change of nickname empties the history and leaves    *)
(* the cursor where it was.                                                *)

C30_CursorInRange == historyIndex \in -1..(Len(history) - 1)

C30_Navigation ==
  (historyIndex' # historyIndex /\ history' = history) =>
    /\ historyIndex' \in { historyIndex - 1, historyIndex + 1 }
    /\ historyIndex' >= 0 =>
         /\ Len(history) - historyIndex' \in 1..Len(history)
         /\ input' = history[Len(history) - historyIndex']
    /\ historyIndex' = -1 => input' = << >>

C30_Submission == Len(history') > Len(history) => historyIndex' = -1

C30_HistoryCursor ==
  [] C30_CursorInRange /\ [][C30_Navigation /\ C30_Submission]_vars

-----------------------------------------------------------------------------
(* C31: when the nickname changes, the whole session is reset:             *)
(* currentDirectory becomes /home/<new nickname>, the file system is a     *)
(* fresh tree built for the new nickname containing none of the nodes      *)
(* created before, and the command history and the display log are empty.  *)

C31_SessionReset ==
  [][ nickname' # nickname =>
        /\ currentDirectory' = HomePath(nickname')
        /\ fileSystem' = createFileSystem(nickname')
        /\ \A e \in C25_Entries(fileSystem', Root, S_slash) :
             e \in C25_Entries(createFileSystem(nickname'), Root, S_slash)
        /\ getNodeAtPath(fileSystem', HomePath(nickname)) = Null
        /\ history' = << >>
        /\ lines' = << >>
    ]_vars

\* mkdir x had created x under the earlier nickname; after the change to
\* "bo" the tree is the initial one of "bo", without x.
C31_Witness ==
  /\ nickname = OtherNickname
  /\ command = Typed(S_mkdir, N_x) /\ result.error = Undefined
  /\ history = << >> /\ lines = << >>
  /\ currentDirectory = HomePath(OtherNickname)
  /\ fileSystem = createFileSystem(OtherNickname)
  /\ \A e \in C25_Entries(fileSystem, Root, S_slash) :
       e.path # JoinPath(currentDirectory, N_x)


-----
(* Submissions that share one render.  executeCommandLine is a callback    *)
(* made by a render: executeCommand and the new path of cd read the state  *)
(* that render captured, the updates are queued as functions of the state  *)
(* the earlier queued updates leave.  Lines of cd and mkdir only, which    *)
(* change nothing before their queued update runs.                         *)

BatchInputs ==
  { Typed(S_cd, N_Documents), Typed(S_mkdir, N_x), Typed(S_cd, S_dotdot),
    Typed(S_cd, N_x) }

\* executeCommandLine called on the callback in use, no render since the
\* call before it.
ExecuteCommandLineOnClosure ==
  \E commandLine \in BatchInputs :
    LET state == IF closure.fresh
                 THEN [ fresh |-> FALSE,
                        currentDirectory |-> currentDirectory,
                        fileSystem |-> fileSystem ]
                 ELSE closure
        out == executeCommand(commandLine, state.currentDirectory,
                              state.fileSystem, nickname)
        res == out.result
        cmd == ParseCmd(commandLine)
        args == ParseArgs(commandLine)
    IN  /\ Len(history) < MaxSubmits
        /\ history' = CommitHistory(history, commandLine)
        /\ lastInput' = commandLine
        /\ command' = commandLine
        /\ result' = res
        /\ currentDirectory' =
             IF cmd = S_cd /\ ~ Truthy(res.error)
             THEN CdNewPath(args, state.currentDirectory, nickname)
             ELSE currentDirectory
        /\ fileSystem' =
             CommitFileSystem(cmd, args, res, fileSystem, currentDirectory)
        /\ lines' = CommitLines(cmd, res, lines, commandLine,
                                state.currentDirectory)
        /\ closure' = state
        /\ UNCHANGED << nickname, pendingUpserts, activeComment >>
        /\ UNCHANGED << editorVars, roomVars, userVars >>

\* The component renders: the queued updates have run, and the callback the
\* render makes captures the state they left.
Render ==
  /\ ~ closure.fresh
  /\ closure' = Rendered
  /\ UNCHANGED << nickname, currentDirectory, fileSystem, history, lines,
                  lastInput, command, result, pendingUpserts, activeComment >>
  /\ UNCHANGED << editorVars, roomVars, userVars >>

SpecBatched == Init /\ [][ExecuteCommandLineOnClosure \/ Render]_vars

C33_FreshCandidates ==
  [][ (tabPresses' = tabPresses + 1
         /\ (input' # input \/ tabCompletionState.isCycling)) =>
        LET words == Split(input', " ")
            availableItems ==
              AvailableItems(ToLowerCase(words[1]), fileSystem,
                             currentDirectory)
        IN  /\ \E i \in 1..Len(availableItems) :
                 availableItems[i] = words[Len(words)]
            /\ tabCompletionState.isCycling =>
                 tabCompletionState.matches =
                   SelectSeq(availableItems,
                             LAMBDA name :
                               StartsWith(name,
                                 tabCompletionState.originalPartial)) ]_vars


\* C34: after any sequence of createRoom and joinRoom calls the white seat
\* and the black seat of a room are never held by one device id: a device
\* that holds a seat, the host included, does not get the other one by
\* joining again.
C34_SeatsOfTwoDevices ==
  (room.exists /\ room.players.white # NoValue) =>
    room.players.white # room.players.black


\* C35: while a room document exists its version never decreases, it starts
\* at 0 and equals the number of submitMove calls accepted, and fen, turn
\* and lastMove change only in a step that raises the version by exactly 1
\* (joinRoom changes none of the four).
C35_VersionCountsMoves ==
  /\ [](room.exists => room.version = Len(commits))
  /\ [][ /\ (~ room.exists /\ room'.exists) => room'.version = 0
         /\ (room.exists /\ room'.exists) =>
              /\ room'.version >= room.version
              /\ (\/ room'.fen # room.fen
                  \/ room'.turn # room.turn
                  \/ room'.lastMove # room.lastMove) =>
                   room'.version = room.version + 1
              /\ (\E c \in Clients :
                    calls[c].op = "joinRoom" /\ calls'[c].outcome = "ok"
                      /\ calls[c].pc = "commit" /\ calls'[c].pc = "done") =>
                   /\ room'.version = room.version
                   /\ room'.fen = room.fen
                   /\ room'.turn = room.turn
                   /\ room'.lastMove = room.lastMove ]_vars


\* C36: every move the room accepts was submitted by the client that holds
\* the seat of the colour the stored turn names just before the move, and
\* the stored turn flips with each accepted move: no interleaving of the
\* clients gets a move accepted out of turn.
C36_MovesInTurn ==
  [][ \A c \in Clients :
        ( /\ calls[c].op = "submitMove"
          /\ calls[c].pc = "commit"
          /\ calls'[c].pc = "done" ) =>
          /\ room.players[IF room.turn = "w" THEN "white" ELSE "black"] = c
          /\ room'.turn # room.turn ]_vars


\* The listener of client c ran last on null.
C37_GotNull(c) == boards[c].listening /\ boards[c].seen = NoRoom

====
